---- MODULE Spec2Model ----
(***************************************************************************)
(* A model of the Extract evaluator: the value universe, the persistent    *)
(* Env with its module registry (env.go), the generic evaluator            *)
(* (extract.go), pattern-matched user functions (func.go) and the kernel   *)
(* forms with createFunc.  A host builds functions through the Go API      *)
(* (CompilePattern, NewFunc, AddVariant) and runs a script with Run: one   *)
(* action is one host call or one iteration of Run's loop (Spec).  SpecEnv *)
(* is the Env API on its own, over the heap of localList nodes.  Beside    *)
(* them stand evaluators that share a registry (SpecConc), add and sub on  *)
(* literal operands (SpecNum), a pattern with a Pinned ident (SpecPat),    *)
(* the List API over a heap of nodes (SpecLst), the scanner (SpecScn) and  *)
(* the parser over that scanner (SpecPrs).                                 *)
(***************************************************************************)
EXTENDS Integers, Sequences, FiniteSets, TLC

VARIABLES
    env,      \* the *Env threaded through Run by the host
    modules,  \* Env.modules: module name -> Module.decls (ident -> value)
    funcs,    \* the *Func objects allocated by NewFunc, by address
    script,   \* the sequence of expressions given to Run
    ret,      \* Run's ret: the value of the last evaluated expression
    pc,       \* "run": Run's loop is live; "done": Run returned; "panic"
    vals,     \* history: every expression Run evaluated: its Env, the Env and the value returned
    log,      \* history: the events of the last action's evaluation
    last,     \* history: the operation and the state the last action began with
    nodes,    \* the heap of localList nodes, by address (0 is the nil *localList)
    envs,     \* the Env structs a host of the Env API holds
    conc,     \* evaluators on goroutines that share one module registry
    arith,    \* the last call of add or sub on its own: operands and result
    pat,      \* a pattern with a Pinned ident: compiled, then matched
    lst,      \* the heap of List nodes, by address (0 is the nil *List), and listPool
    scn,      \* a Scanner over an input, and the tokens its Scan calls gave
    prs       \* a script given to Parse, and what Parse returned

\* the state of Run and of the Env API
runVars == <<env, modules, funcs, script, ret, pc, vals, log, nodes, envs>>
\* the state of the specifications that stand beside them
auxVars == <<conc, arith, pat, lst, scn, prs>>
exceptConc == <<runVars, arith, pat, lst, scn, prs>>
exceptArith == <<runVars, conc, pat, lst, scn, prs>>
exceptPat == <<runVars, conc, arith, lst, scn, prs>>
exceptLst == <<runVars, conc, arith, pat, scn, prs>>
exceptScn == <<runVars, conc, arith, pat, lst, prs>>
exceptPrs == <<runVars, conc, arith, pat, lst, scn>>

vars == <<env, modules, funcs, script, ret, pc, vals, log, last, nodes, envs, conc, arith, pat, lst, scn,
          prs>>

---------------------------------------------------------------------------
(* Bounds *)

MaxDepth == 12    \* depth of nested Eval calls (the Go stack)
MaxFuncs == 1     \* *Func objects the host allocates
MaxVariants == 2  \* variants of one *Func
MaxEnvs == 3      \* Env structs a host of the Env API holds
MaxEvaluators == 2 \* goroutines that evaluate with one shared registry
MaxOperands == 3  \* operands of one call of add
MaxNodes == 4     \* List nodes on the heap
MaxVals == 2      \* values given to one ListOf or CollectList
MaxInput == 2     \* runes of an input made of ScanAlphabet
MaxStops == 2     \* calls of Scan that return false
MaxSource == 3    \* runes of a script made of ParseAlphabet

---------------------------------------------------------------------------
(* The value universe: Go's `any`, by dynamic type *)

Nil == [t |-> "nil"]
Int64(n) == [t |-> "int", n |-> n]
Float64(halves) == [t |-> "float", halves |-> halves]  \* the float halves/2
Str(s) == [t |-> "string", s |-> s]
Atom(s) == [t |-> "atom", s |-> s]
Ident(s) == [t |-> "ident", s |-> s]
Pinned(s) == [t |-> "pinned", s |-> s]
Call(l) == [t |-> "call", l |-> l]
List(l) == [t |-> "list", l |-> l]
Ref(in, name) == [t |-> "ref", in |-> in, name |-> name]
\* a *List as Equal sees it: the address of its first node
ListAt(p) == [t |-> "list*", p |-> p]
FuncPtr(id) == [t |-> "func", id |-> id]
EvalFunc(name) == [t |-> "evalfunc", name |-> name]

NameError(ident) == [t |-> "err", kind |-> "NameError", of |-> Ident(ident)]
UndefinedModuleError(name) == [t |-> "err", kind |-> "UndefinedModuleError", of |-> Atom(name)]
NewTypeError(val) == [t |-> "err", kind |-> "TypeError", of |-> val]
ArgumentNumError(num, expected) ==
    [t |-> "err", kind |-> "ArgumentNumError", of |-> List(<<Int64(num), Int64(expected)>>)]
ErrPatternMatch == [t |-> "err", kind |-> "ErrPatternMatch", of |-> Nil]
ErrorString(msg, val) == [t |-> "err", kind |-> msg, of |-> val]

IsError(v) == v.t = "err"

moduleIdent == "$module"
NoModule == "<nil>"

---------------------------------------------------------------------------
(* env.go: the locals chain, Let, Lookup, the module registry *)

\* localList.Push: the new node is the head of the chain
Push(locals, ident, val) == <<[ident |-> ident, val |-> val]>> \o locals

\* Env.Let: a copy of the Env with one more node on its chain
Let(e, ident, val) == [e EXCEPT !.locals = Push(e.locals, ident, val)]

\* Env.withCurrentModule: a copy with the module installed and the sentinel pushed
withCurrentModule(e, m) == [cur |-> m, locals |-> Push(e.locals, moduleIdent, Nil)]

Found(v) == [ok |-> TRUE, val |-> v, panic |-> FALSE]
NotFound == [ok |-> FALSE, val |-> Nil, panic |-> FALSE]
NilDeref == [ok |-> FALSE, val |-> Nil, panic |-> TRUE]

\* Module.Lookup
ModuleLookup(decls, ident) ==
    IF ident \in DOMAIN decls THEN Found(decls[ident]) ELSE NotFound

\* Env.Lookup over Env.All: the chain from its head outward; at the sentinel
\* the current module's declarations stand in for the node
RECURSIVE LookupFrom(_, _, _, _)
LookupFrom(mods, e, ident, i) ==
    IF i > Len(e.locals) THEN NotFound
    ELSE IF e.locals[i].ident = moduleIdent
    THEN IF e.cur = NoModule THEN NilDeref
         ELSE IF ident \in DOMAIN mods[e.cur] THEN Found(mods[e.cur][ident])
         ELSE LookupFrom(mods, e, ident, i + 1)
    ELSE IF e.locals[i].ident = ident THEN Found(e.locals[i].val)
    ELSE LookupFrom(mods, e, ident, i + 1)

Lookup(mods, e, ident) == LookupFrom(mods, e, ident, 1)

\* make(map[Ident]any)
NoDecls == [i \in {} |-> Nil]

\* Env.GetModule: nil when the name is not registered
GetModule(mods, name) == name \in DOMAIN mods

\* a LoadOrStore that stores over the value a key already has
LoadOrStoreOver(m, key, val) ==
    [loaded |-> key \in DOMAIN m,
     map |-> [k \in DOMAIN m \cup {key} |-> IF k = key THEN val ELSE m[k]]]

\* xsync.Map.LoadOrStore, one atomic step: the value of a present key is kept
LoadOrStore(m, key, val) ==
    IF key \in DOMAIN m THEN [loaded |-> TRUE, map |-> m]
    ELSE [loaded |-> FALSE, map |-> m @@ (key :> val)]

\* Env.AddModule: LoadOrStore of a fresh Module; nil when the name is taken
AddModule(mods, name) ==
    LET r == LoadOrStore(mods, name, NoDecls) IN [ok |-> ~r.loaded, mods |-> r.map]

\* HeapPush with the head node overwritten where it is
HeapPushInPlace(ns, ll, ident, val) ==
    IF ll = 0 THEN [nodes |-> Append(ns, [ident |-> ident, val |-> val, next |-> ll]), ll |-> Len(ns) + 1]
    ELSE [nodes |-> [ns EXCEPT ![ll] = [ident |-> ident, val |-> val, next |-> ns[ll].next]], ll |-> ll]

\* localList.Push on the heap: a node is allocated, the nodes there are stay
\* as they are
HeapPush(ns, ll, ident, val) ==
    [nodes |-> Append(ns, [ident |-> ident, val |-> val, next |-> ll]), ll |-> Len(ns) + 1]

\* localList.All: the chain from node ll to nil
RECURSIVE Chain(_, _)
Chain(ns, ll) ==
    IF ll = 0 THEN <<>>
    ELSE <<[ident |-> ns[ll].ident, val |-> ns[ll].val]>> \o Chain(ns, ns[ll].next)

\* Env.Let on the heap: the receiver is a copy, its locals the new node
HeapLet(ns, E, ident, val) ==
    LET r == HeapPush(ns, E.locals, ident, val) IN
    [nodes |-> r.nodes, env |-> [E EXCEPT !.locals = r.ll]]

\* Env.withCurrentModule on the heap
HeapWithCurrentModule(ns, E, m) ==
    LET r == HeapPush(ns, E.locals, moduleIdent, Nil) IN
    [nodes |-> r.nodes, env |-> [cur |-> m, locals |-> r.ll]]

\* Env.Lookup on the heap
HeapLookup(ns, mods, E, ident) ==
    Lookup(mods, [cur |-> E.cur, locals |-> Chain(ns, E.locals)], ident)

---------------------------------------------------------------------------
(* func.go: patterns.  A compiled matcher is the data its closure captured *)

\* Equal: no type of the evaluator implements Equaler, so the result is
\* reflect.TypeOf(v1).Comparable() && v1 == v2; func-typed values (EvalFunc)
\* are not comparable, and reflect.TypeOf(nil) is a nil Type, whose Comparable
\* panics.  A *List is a pointer: two of them are == when they are one address
\* (ListAt)
Equal(v1, v2) ==
    IF v1.t = "nil" THEN [eq |-> FALSE, panic |-> TRUE]
    ELSE [eq |-> v1.t \notin {"evalfunc", "closure"} /\ v1 = v2, panic |-> FALSE]

equalityMatcher(val) == [k |-> "equality", val |-> val]
assignMatcher(name) == [k |-> "assign", name |-> name]

Compiled(m) == [ok |-> TRUE, m |-> m, err |-> Nil, panic |-> FALSE]
CompileError(err) == [ok |-> FALSE, m |-> Nil, err |-> err, panic |-> FALSE]
CompilePanic == [ok |-> FALSE, m |-> Nil, err |-> Nil, panic |-> TRUE]

\* pinMatcher: the ident's value is looked up once, when the pattern is compiled
pinMatcher(mods, e, name) ==
    LET c == Lookup(mods, e, name) IN
    IF c.panic THEN CompilePanic
    ELSE IF ~c.ok THEN CompileError(NameError(name))
    ELSE Compiled([k |-> "pin", name |-> name, val |-> c.val])

RECURSIVE compilePattern(_, _, _)
RECURSIVE listMatcherFrom(_, _, _, _, _)

\* listMatcher: the parts are compiled in order; the first failure is returned
listMatcherFrom(mods, e, parts, i, matchers) ==
    IF i > Len(parts) THEN Compiled([k |-> "list", matchers |-> matchers])
    ELSE LET c == compilePattern(mods, e, parts[i]) IN
         IF ~c.ok THEN c
         ELSE listMatcherFrom(mods, e, parts, i + 1, Append(matchers, c.m))

compilePattern(mods, e, format) ==
    CASE format.t \in {"atom", "int", "float", "string"} -> Compiled(equalityMatcher(format))
      [] format.t = "ident" -> Compiled(assignMatcher(format.s))
      [] format.t = "pinned" -> pinMatcher(mods, e, format.s)
      [] format.t \in {"call", "list"} -> listMatcherFrom(mods, e, format.l, 1, <<>>)
      [] OTHER -> CompileError(ErrorString("unexpected type in pattern", format))

CompilePattern(mods, e, format) == compilePattern(mods, e, format)

\* compileFuncPattern: the head of the Call is the name, its tail the pattern
compileFuncPattern(mods, e, pattern) ==
    IF pattern.t # "call"
    THEN [name |-> "", c |-> CompileError(NewTypeError(pattern))]
    ELSE IF Len(pattern.l) = 0
    THEN [name |-> "",
          c |-> CompileError(ErrorString("function pattern list must contain at least one element", Nil))]
    ELSE IF Head(pattern.l).t # "ident"
    THEN [name |-> "", c |-> CompileError(NewTypeError(Ident("")))]
    ELSE [name |-> Head(pattern.l).s, c |-> CompilePattern(mods, e, List(Tail(pattern.l)))]

Matched(e, ok) == [env |-> e, ok |-> ok, panic |-> FALSE]

RECURSIVE Match(_, _, _)
RECURSIVE MatchListFrom(_, _, _, _)

\* the closure listMatcher returns: the elements are matched in order, each in
\* the Env the one before it returned
MatchListFrom(matchers, e, l, i) ==
    IF i > Len(l) THEN Matched(e, TRUE)
    ELSE LET r == Match(matchers[i], e, l[i]) IN
         IF r.panic \/ ~r.ok THEN [r EXCEPT !.ok = FALSE]
         ELSE MatchListFrom(matchers, r.env, l, i + 1)

\* Match with a pin that reads its ident when the value is matched
MatchPinRead(m, e, val) ==
    IF m.k = "pin"
    THEN LET now == Lookup(NoDecls, e, m.name).val IN
         [env |-> e, ok |-> Equal(now, val).eq, panic |-> Equal(now, val).panic]
    ELSE IF m.k = "assign" THEN Matched(Let(e, m.name, val), TRUE)
    ELSE Matched(e, m.k = "equality" /\ m.val = val)

\* Pattern.Match: the root matcher applied to the Env and the value
Match(m, e, val) ==
    CASE m.k = "equality" -> Matched(e, m.val = val)
      [] m.k = "assign" -> Matched(Let(e, m.name, val), TRUE)
      [] m.k = "pin" -> [env |-> e, ok |-> Equal(m.val, val).eq, panic |-> Equal(m.val, val).panic]
      [] m.k = "list" ->
            IF val.t # "list" \/ Len(val.l) # Len(m.matchers) THEN Matched(e, FALSE)
            ELSE MatchListFrom(m.matchers, e, val.l, 1)

---------------------------------------------------------------------------
(* The evaluation of one expression.  h is the state an evaluation reads   *)
(* and writes beside its Env: the registry, the *Func objects, and the     *)
(* history of events; a panic or a stack deeper than MaxDepth stops it.     *)

NewH(mods, fs) ==
    [modules |-> mods, funcs |-> fs, log |-> <<>>, depth |-> 0,
     over |-> FALSE, panic |-> FALSE, ncalls |-> 0, nruns |-> 0]

Emit(h, ev) == [h EXCEPT !.log = Append(@, ev)]
R(h, e, v) == [h |-> h, env |-> e, val |-> v]
Panic(h, e) == R([h EXCEPT !.panic = TRUE], e, Nil)
Stopped(h) == h.over \/ h.panic

\* strings.ToUpper and strings.ToLower on the strings of the model
Strings == {"test", "Test", "TEST"}
ToUpper == [s \in Strings |-> "TEST"]
ToLower == [s \in Strings |-> "test"]

\* fmt.Sprintf: no string of the model holds a verb, so the format is
\* returned as it is, followed by Sprintf's EXTRA note when operands are given
Sprintf(str, verbs) ==
    IF Len(verbs) = 0 THEN Str(str)
    ELSE [t |-> "string", s |-> str, extra |-> verbs]

RECURSIVE Eval(_, _, _, _)
RECURSIVE EvalAllFrom(_, _, _, _, _, _)
RECURSIVE RunFrom(_, _, _, _, _, _)
RECURSIVE IdentEval(_, _, _, _)
RECURSIVE RefEval(_, _, _, _)
RECURSIVE CallEval(_, _, _, _)
RECURSIVE FuncEval(_, _, _, _)
RECURSIVE TryVariants(_, _, _, _, _, _)
RECURSIVE ClosureEval(_, _, _, _)
RECURSIVE EvalFuncEval(_, _, _, _)
RECURSIVE kernelDefModule(_, _, _)
RECURSIVE kernelList(_, _, _)
RECURSIVE kernelDef(_, _, _)
RECURSIVE kernelFunc(_, _, _)
RECURSIVE kernelAdd(_, _, _)
RECURSIVE AddFrom(_, _, _, _, _, _)
RECURSIVE kernelSub(_, _, _)
RECURSIVE stdString(_, _, _, _)
RECURSIVE RunFromNoStop(_, _, _, _, _, _)
RECURSIVE TryVariantsFallsThrough(_, _, _, _, _, _)

\* RunFrom without the return on an error
RunFromNoStop(h, e, seq, i, r, run) ==
    IF i > Len(seq) THEN R(Emit(h, [k |-> "ran", run |-> run, n |-> Len(seq), val |-> r]), e, r)
    ELSE LET x == Eval(h, e, seq[i], <<>>)
             ev == [k |-> "run", run |-> run, i |-> i, env |-> e, out |-> x.env, val |-> x.val]
         IN  RunFromNoStop(Emit(x.h, ev), x.env, seq, i + 1, x.val, run)

\* Run's loop from element i on, r the value of the element before it: the
\* elements in order, each in the Env the one before it returned; the first
\* error ends the loop.  run names the invocation in the history
RunFrom(h, e, seq, i, r, run) ==
    IF i > Len(seq) THEN R(Emit(h, [k |-> "ran", run |-> run, n |-> Len(seq), val |-> r]), e, r)
    ELSE LET x == Eval(h, e, seq[i], <<>>)
             ev == [k |-> "run", run |-> run, i |-> i, env |-> e, out |-> x.env, val |-> x.val]
             g == Emit(x.h, ev)
         IN  IF IsError(x.val)
             THEN R(Emit(g, [k |-> "ran", run |-> run, n |-> Len(seq), val |-> x.val]), x.env, x.val)
             ELSE RunFrom(g, x.env, seq, i + 1, x.val, run)

\* Run
Run(h, e, seq) == RunFrom([h EXCEPT !.nruns = @ + 1], e, seq, 1, Nil, h.nruns + 1)

\* EvalAll, drained by its consumer: every element is evaluated, in order, each
\* in the Env the one before it returned; c names the call the values are for
EvalAllFrom(h, e, seq, i, c, acc) ==
    IF i > Len(seq) THEN [h |-> h, vals |-> acc]
    ELSE LET x == Eval(h, e, seq[i], <<>>)
             ev == [k |-> "arg", c |-> c, i |-> i, env |-> e, val |-> x.val]
         IN  EvalAllFrom(Emit(x.h, ev), x.env, seq, i + 1, c, Append(acc, x.val))

EvalAll(h, e, seq, c) == EvalAllFrom(h, e, seq, 1, c, <<>>)

\* Pinned.Eval
PinnedEval(h, e, p) == R(h, e, ErrorString("pinned ident used as expression", Ident(p.s)))

\* Ident.Eval
IdentEval(h, e, ident, args) ==
    LET c == Lookup(h.modules, e, ident.s)
        decl == IF e.cur \in DOMAIN h.modules
                THEN ModuleLookup(h.modules[e.cur], ident.s) ELSE NotFound
        ev == [k |-> "ident", ident |-> ident.s, env |-> e, decl |-> decl,
               ok |-> c.ok, val |-> c.val]
        g == Emit(h, ev)
    IN  IF c.panic THEN Panic(g, e)
        ELSE IF ~c.ok THEN R(g, e, NameError(ident.s))
        ELSE IF c.val = ident THEN Panic(g, e)
        ELSE Eval(g, e, c.val, args)

\* Ref.Eval without the case for an In that is an error
RefEvalNoErrorCase(h, e, ref, args) ==
    LET x == Eval(h, e, ref.in, <<>>)
        in == x.val
        v == ModuleLookup(x.h.modules[in.s], ref.name)
        ev == [k |-> "ref", ref |-> ref, in |-> in, before |-> h.modules,
               modules |-> x.h.modules, deref |-> FALSE]
        out(val) == R(Emit(x.h, ev @@ [val |-> val, after |-> x.h.modules]), x.env, val)
        y == Eval(x.h, x.env, v.val, args)
    IN  IF in.t = "atom"
        THEN IF ~GetModule(x.h.modules, in.s) THEN out(UndefinedModuleError(in.s))
             ELSE IF ~v.ok THEN out(NameError(ref.name))
             ELSE R(Emit(y.h, [ev EXCEPT !.deref = TRUE] @@ [val |-> y.val, after |-> y.h.modules]),
                    y.env, y.val)
        ELSE out(NewTypeError(in))

\* Ref.Eval
RefEval(h, e, ref, args) ==
    LET x == Eval(h, e, ref.in, <<>>)
        in == x.val
        v == ModuleLookup(x.h.modules[in.s], ref.name)
        ev == [k |-> "ref", ref |-> ref, in |-> in, before |-> h.modules,
               modules |-> x.h.modules, deref |-> FALSE]
        out(val) == R(Emit(x.h, ev @@ [val |-> val, after |-> x.h.modules]), x.env, val)
        y == Eval(x.h, x.env, v.val, args)
    IN  IF in.t = "atom"
        THEN IF ~GetModule(x.h.modules, in.s) THEN out(UndefinedModuleError(in.s))
             ELSE IF ~v.ok THEN out(NameError(ref.name))
             ELSE R(Emit(y.h, [ev EXCEPT !.deref = TRUE] @@ [val |-> y.val, after |-> y.h.modules]),
                    y.env, y.val)
        ELSE IF IsError(in) THEN out(in)
        ELSE out(NewTypeError(in))

\* Call.Eval with the arguments given to the Call itself dropped
CallEvalDropsArgs(h, e, call, args) ==
    IF Len(call.l) = 0 THEN R(h, e, call)
    ELSE Eval(h, e, Head(call.l), Tail(call.l))

\* Call.Eval
CallEval(h, e, call, args) ==
    IF Len(call.l) = 0 THEN R(h, e, call)
    ELSE LET x == Eval(h, e, Head(call.l), Tail(call.l)) IN
         IF Len(args) = 0 THEN x
         ELSE Eval(x.h, x.env, x.val, args)

\* TryVariants without the return at the first match: the last match wins
TryVariantsLastWins(h, fo, eargs, i, c, tried) ==
    LET all == [j \in 1..Len(fo.variants) |-> j]
        ok == {j \in 1..Len(fo.variants) : Match(fo.variants[j].Pattern, fo.env, eargs).ok}
        v == CHOOSE j \in ok : \A k \in ok : k <= j
    IN  IF ok = {} THEN [h |-> h, v |-> 0, env |-> fo.env, tried |-> all]
        ELSE [h |-> h, v |-> v, env |-> Match(fo.variants[v].Pattern, fo.env, eargs).env, tried |-> all]

\* TryVariants with the last variant taken when none matched
TryVariantsFallsThrough(h, fo, eargs, i, c, tried) ==
    IF i > Len(fo.variants)
    THEN [h |-> h, v |-> Len(fo.variants), env |-> fo.env, tried |-> tried]
    ELSE LET m == Match(fo.variants[i].Pattern, fo.env, eargs) IN
         IF m.ok THEN [h |-> h, v |-> i, env |-> m.env, tried |-> Append(tried, i)]
         ELSE TryVariantsFallsThrough(h, fo, eargs, i + 1, c, Append(tried, i))

\* Func.Eval's loop over f.variants, from variant i on
TryVariants(h, fo, eargs, i, c, tried) ==
    IF i > Len(fo.variants) THEN [h |-> h, v |-> 0, env |-> fo.env, tried |-> tried]
    ELSE LET m == Match(fo.variants[i].Pattern, fo.env, eargs) IN
         IF m.panic THEN [h |-> [h EXCEPT !.panic = TRUE], v |-> 0, env |-> fo.env, tried |-> tried]
         ELSE IF m.ok THEN [h |-> h, v |-> i, env |-> m.env, tried |-> Append(tried, i)]
         ELSE TryVariants(h, fo, eargs, i + 1, c, Append(tried, i))

\* Func.Eval
FuncEval(h, e, f, args) ==
    LET c == h.ncalls + 1
        fo == h.funcs[f.id]
        enter == [k |-> "enter", c |-> c, f |-> f.id, caller |-> e, args |-> args]
        ea == EvalAll(Emit([h EXCEPT !.ncalls = c], enter), e, args, c)
        eargs == List(ea.vals)
        fn == ea.h.funcs[f.id]
        m == TryVariants(ea.h, fn, eargs, 1, c, <<>>)
        try == [k |-> "try", c |-> c, f |-> f.id, name |-> fn.name, variants |-> fn.variants,
                fenv |-> fn.env, eargs |-> eargs, tried |-> m.tried, v |-> m.v, benv |-> m.env,
                modules |-> m.h.modules, funcs |-> m.h.funcs, depth |-> m.h.depth]
        body == [k |-> "body", c |-> c, f |-> f.id, v |-> m.v]
        b == Run(Emit(Emit(m.h, try), body), m.env, fn.variants[m.v].Body)
        leave == [k |-> "leave", c |-> c, f |-> f.id, caller |-> e, v |-> m.v]
    IN  IF m.v = 0
        THEN R(Emit(Emit(m.h, try), [leave EXCEPT !.v = 0] @@ [env |-> e, val |-> ErrPatternMatch]),
               e, ErrPatternMatch)
        ELSE R(Emit(b.h, leave @@ [env |-> e, val |-> b.val]), e, b.val)

LetAll(e, params, args) ==
    LET RECURSIVE go(_, _)
        go(x, i) == IF i > Len(params) THEN x ELSE go(Let(x, params[i], args[i]), i + 1)
    IN  go(e, 1)

\* the EvalFunc closures createFunc returns; clo.env, clo.name, clo.params and
\* clo.body are the variables the closure captured, and f is the closure itself
ClosureEval(h, fenv, clo, fargs) ==
    IF clo.form = "ident"
    THEN IF Len(fargs) # 0 THEN R(h, fenv, ArgumentNumError(Len(fargs), 0))
         ELSE LET b == Run(h, fenv, clo.body) IN R(b.h, fenv, b.val)
    ELSE IF Len(fargs) # Len(clo.params)
         THEN R(h, fenv, ArgumentNumError(Len(fargs), Len(clo.params)))
         ELSE LET c == h.ncalls + 1
                  enter == [k |-> "enter", c |-> c, f |-> 0, caller |-> fenv, args |-> fargs]
                  ea == EvalAll(Emit([h EXCEPT !.ncalls = c], enter), clo.env, fargs, c)
                  benv == Let(LetAll(fenv, clo.params, ea.vals), clo.name, clo)
                  b == Run(ea.h, benv, clo.body)
                  leave == [k |-> "leave", c |-> c, f |-> 0, caller |-> fenv, v |-> 1,
                            env |-> benv, val |-> b.val]
              IN  R(Emit(b.h, leave), benv, b.val)

---------------------------------------------------------------------------
(* The kernel forms and std *)

Closure(form, e, name, params, body) ==
    [t |-> "closure", form |-> form, env |-> e, name |-> name, params |-> params, body |-> body]

\* createFunc: an Ident pattern gives a function of no arguments; a Call
\* pattern gives the name and the parameters, which must all be Idents
createFunc(e, pattern, body) ==
    CASE pattern.t = "ident" ->
            [ok |-> TRUE, name |-> pattern.s, f |-> Closure("ident", e, pattern.s, <<>>, body)]
      [] pattern.t = "call" ->
            IF Len(pattern.l) = 0
            THEN [ok |-> FALSE, name |-> "",
                  f |-> ErrorString("function pattern list must contain at least one element", Nil)]
            ELSE IF Head(pattern.l).t # "ident"
            THEN [ok |-> FALSE, name |-> "", f |-> NewTypeError(Ident(""))]
            ELSE LET tail == Tail(pattern.l)
                     bad == {i \in 1..Len(tail) : tail[i].t # "ident"}
                     first == CHOOSE i \in bad : \A j \in bad : i <= j
                 IN  IF bad # {}
                     THEN [ok |-> FALSE, name |-> "", f |-> NewTypeError(tail[first])]
                     ELSE [ok |-> TRUE, name |-> Head(pattern.l).s,
                           f |-> Closure("call", e, Head(pattern.l).s,
                                         [i \in 1..Len(tail) |-> tail[i].s], body)]
      [] OTHER -> [ok |-> FALSE, name |-> "", f |-> NewTypeError(pattern)]

\* kernelList
kernelList(h, e, args) ==
    IF Len(args) = 0 THEN R(h, e, ArgumentNumError(0, -1))
    ELSE LET ea == EvalAll(h, e, args, 0) IN R(ea.h, e, List(ea.vals))

\* kernelDefModule: the name is registered first; the body runs in a copy of
\* the Env whose currentModule is the new module
kernelDefModule(h, e, args) ==
    IF Len(args) = 0 THEN R(h, e, ArgumentNumError(0, -1))
    ELSE IF Head(args).t # "atom" THEN R(h, e, NewTypeError(Atom("")))
    ELSE LET name == Head(args).s
             m == AddModule(h.modules, name)
             mr == [e EXCEPT !.cur = name]
             body == Run([h EXCEPT !.modules = m.mods], mr, Tail(args))
         IN  IF ~m.ok THEN R(h, e, ErrorString("attempted to redeclare module", Atom(name)))
             ELSE IF IsError(body.val) THEN R(body.h, e, body.val)
             ELSE R(body.h, e, Atom(name))

\* kernelDef: decls.LoadOrStore keeps a declaration that is already there
kernelDef(h, e, args) ==
    IF Len(args) < 2 THEN R(h, e, ArgumentNumError(Len(args), -1))
    ELSE IF e.cur = NoModule THEN R(h, e, ErrorString("def used outside of module", Nil))
    ELSE LET cf == createFunc(e, Head(args), Tail(args)) IN
         IF ~cf.ok THEN R(h, e, cf.f)
         ELSE LET r == LoadOrStore(h.modules[e.cur], cf.name, cf.f)
                  val == IF r.loaded
                         THEN ErrorString("attempted to redeclare function", Ident(cf.name))
                         ELSE cf.f
                  g == [h EXCEPT !.modules[e.cur] = r.map]
              IN  R(Emit(g, [k |-> "def", name |-> cf.name, module |-> e.cur, f |-> cf.f,
                             declared |-> r.loaded, before |-> h.modules[e.cur],
                             after |-> r.map, val |-> val]),
                    e, val)

\* kernelFunc
kernelFunc(h, e, args) ==
    IF Len(args) < 2 THEN R(h, e, ArgumentNumError(Len(args), -1))
    ELSE R(h, e, createFunc(e, Head(args), Tail(args)).f)

\* kernelAdd's loop over EvalAll: an error or a non-number ends it at once
AddFrom(h, e, args, i, total, totalf) ==
    IF i > Len(args)
    THEN R(h, e, IF totalf # 0 THEN Float64(2 * total + totalf) ELSE Int64(total))
    ELSE LET x == Eval(h, e, args[i], <<>>)
             g == Emit(x.h, [k |-> "arg", c |-> 0, i |-> i, env |-> e, val |-> x.val])
         IN  CASE x.val.t = "int" -> AddFrom(g, x.env, args, i + 1, total + x.val.n, totalf)
               [] x.val.t = "float" -> AddFrom(g, x.env, args, i + 1, total, totalf + x.val.halves)
               [] x.val.t = "err" -> R(g, e, x.val)
               [] OTHER -> R(g, e, NewTypeError(x.val))

\* kernelAdd
kernelAdd(h, e, args) ==
    IF Len(args) < 2 THEN R(h, e, ArgumentNumError(Len(args), -1))
    ELSE LET r == AddFrom(h, e, args, 1, 0, 0) IN R(r.h, e, r.val)

\* kernelSub: both operands are evaluated in the caller's Env
kernelSub(h, e, args) ==
    IF Len(args) # 2 THEN R(h, e, ArgumentNumError(Len(args), 2))
    ELSE LET x == Eval(h, e, args[1], <<>>)
             y == Eval(x.h, e, args[2], <<>>)
             a == x.val
             b == y.val
             i == IF a.t = "int" THEN a.n ELSE 0
             f == IF a.t = "float" THEN a.halves ELSE 0
         IN  IF a.t \notin {"int", "float"} THEN R(y.h, e, NewTypeError(a))
             ELSE CASE b.t = "int" ->
                         IF f # 0 THEN R(y.h, e, Float64(f - 2 * b.n))
                         ELSE R(y.h, e, Int64(i - b.n))
                    [] b.t = "float" ->
                         IF i # 0 THEN R(y.h, e, Float64(2 * i - b.halves))
                         ELSE R(y.h, e, Float64(f - b.halves))
                    [] OTHER -> R(y.h, e, NewTypeError(b))

\* stdString: to_upper, to_lower and format
stdString(h, e, name, args) ==
    IF name = "format"
    THEN IF Len(args) = 0 THEN R(h, e, ArgumentNumError(0, -1))
         ELSE LET x == Eval(h, e, Head(args), <<>>)
                  verbs == EvalAll(x.h, e, Tail(args), 0)
              IN  IF x.val.t # "string" THEN R(x.h, e, NewTypeError(x.val))
                  ELSE R(verbs.h, e, Sprintf(x.val.s, verbs.vals))
    ELSE IF Len(args) # 1 THEN R(h, e, ArgumentNumError(Len(args), 1))
    ELSE LET x == Eval(h, e, Head(args), <<>>) IN
         IF x.val.t # "string" THEN R(x.h, e, NewTypeError(x.val))
         ELSE R(x.h, e, Str(IF name = "to_upper" THEN ToUpper[x.val.s] ELSE ToLower[x.val.s]))

\* EvalFunc.Eval: the wrapped Go function is called
EvalFuncEval(h, e, f, args) ==
    CASE f.name = "list" -> kernelList(h, e, args)
      [] f.name = "defmodule" -> kernelDefModule(h, e, args)
      [] f.name = "def" -> kernelDef(h, e, args)
      [] f.name = "func" -> kernelFunc(h, e, args)
      [] f.name = "add" -> kernelAdd(h, e, args)
      [] f.name = "sub" -> kernelSub(h, e, args)
      [] OTHER -> stdString(h, e, f.name, args)

\* Eval: an Evaluator is asked to evaluate itself; any other value is returned
\* as it is or, when arguments are given, pushed onto them
Eval(h, e, expr, args) ==
    IF Stopped(h) THEN R(h, e, Nil)
    ELSE IF h.depth = MaxDepth THEN R([h EXCEPT !.over = TRUE], e, Nil)
    ELSE LET g == [h EXCEPT !.depth = @ + 1]
             x == CASE expr.t = "pinned" -> PinnedEval(g, e, expr)
                    [] expr.t = "call" -> CallEval(g, e, expr, args)
                    [] expr.t = "ident" -> IdentEval(g, e, expr, args)
                    [] expr.t = "ref" -> RefEval(g, e, expr, args)
                    [] expr.t = "evalfunc" -> EvalFuncEval(g, e, expr, args)
                    [] expr.t = "closure" -> ClosureEval(g, e, expr, args)
                    [] expr.t = "func" -> FuncEval(g, e, expr, args)
                    [] OTHER -> R(g, e, IF Len(args) > 0 THEN List(<<expr>> \o args) ELSE expr)
         IN  [x EXCEPT !.h.depth = h.depth]

\* NewFunc: the *Func's own Env binds its name to it
NewFunc(fs, e, name, pattern, body) ==
    LET id == Len(fs) + 1 IN
    Append(fs, [env |-> Let(e, name, FuncPtr(id)), name |-> name,
                variants |-> <<[Pattern |-> pattern, Body |-> body]>>])

\* Func.AddVariant
AddVariant(fs, id, pattern, body) ==
    [fs EXCEPT ![id].variants = Append(@, [Pattern |-> pattern, Body |-> body])]

\* the kernel chain: "list" was pushed first, "sub" last
kernel ==
    Push(Push(Push(Push(Push(Push(<<>>,
        "list", EvalFunc("list")),
        "defmodule", EvalFunc("defmodule")),
        "def", EvalFunc("def")),
        "func", EvalFunc("func")),
        "add", EvalFunc("add")),
        "sub", EvalFunc("sub"))

\* the kernel chain on the heap: node 1 is the node pushed first
kernelNodes ==
    [i \in 1..Len(kernel) |->
        [ident |-> kernel[Len(kernel) - i + 1].ident, val |-> kernel[Len(kernel) - i + 1].val,
         next |-> i - 1]]

\* std: the String module
std ==
    "String" :> ("to_upper" :> EvalFunc("to_upper") @@ "to_lower" :> EvalFunc("to_lower")
                 @@ "format" :> EvalFunc("format"))

\* New: the kernel is the locals chain, std the registry, no current module
New == [env |-> [cur |-> NoModule, locals |-> kernel], modules |-> std]

---------------------------------------------------------------------------
(* The inputs: the variants a host gives its functions, and the            *)
(* expressions of the scripts it runs                                      *)

I(s) == Ident(s)
M == Atom("M")

\* (pattern, body) pairs, as CompilePattern's format and the body list
Variants == {
    [format |-> <<Int64(1)>>, body |-> <<Atom("one")>>],                     \* (f 1) -> :one
    [format |-> <<I("x")>>, body |-> <<Call(<<I("f"), Int64(1)>>)>>],        \* (f x) -> (f 1)
    [format |-> <<I("f")>>, body |-> <<I("f")>>]                             \* (f f) -> f
}

FuncNames == <<"f", "g">>

\* (defmodule :M (def (inc v) (add v 1))
\*               (def (twice w) (:M.inc w))
\*               (def (get _) (func (plus a b) (add a b))))
DefM ==
    Call(<<I("defmodule"), M,
           Call(<<I("def"), Call(<<I("inc"), I("v")>>), Call(<<I("add"), I("v"), Int64(1)>>)>>),
           Call(<<I("def"), Call(<<I("twice"), I("w")>>), Call(<<Ref(M, "inc"), I("w")>>)>>),
           Call(<<I("def"), Call(<<I("get"), I("_")>>),
                  Call(<<I("func"), Call(<<I("plus"), I("a"), I("b")>>),
                         Call(<<I("add"), I("a"), I("b")>>)>>)>>)>>)

\* (defmodule :N (def (k) 7) (k))
DefN ==
    Call(<<I("defmodule"), Atom("N"),
           Call(<<I("def"), Call(<<I("k")>>), Int64(7)>>),
           Call(<<I("k")>>)>>)

\* (defmodule :K (def (k) 7) (def (k) 8))
DefK ==
    Call(<<I("defmodule"), Atom("K"),
           Call(<<I("def"), Call(<<I("k")>>), Int64(7)>>),
           Call(<<I("def"), Call(<<I("k")>>), Int64(8)>>)>>)

\* (let x (add 2 3))
LetX == Call(<<I("let"), I("x"), Call(<<I("add"), Int64(2), Int64(3)>>)>>)

\* (defmodule :E nope (def (z) 1))
DefE ==
    Call(<<I("defmodule"), Atom("E"), I("nope"),
           Call(<<I("def"), Call(<<I("z")>>), Int64(1)>>)>>)

CallInc == Call(<<Ref(M, "inc"), Int64(2)>>)                                 \* (:M.inc 2)
CallTwice == Call(<<Ref(M, "twice"), Int64(1)>>)                             \* (:M.twice 1)
Indirect == Call(<<Call(<<Ref(M, "get"), Call(<<>>)>>), Int64(1), Int64(2)>>) \* ((:M.get ()) 1 2)

F(args) == Call(<<I("f")>> \o args)

\* the scripts a host runs
Programs == {
    <<>>,
    <<F(<<Int64(1)>>), F(<<Int64(2)>>)>>,                       \* (f 1) (f 2)
    <<F(<<Int64(2)>>), Int64(5)>>,                              \* (f 2) 5
    <<F(<<Int64(1), Int64(2)>>), Int64(5)>>,                    \* (f 1 2) 5
    <<DefM, CallInc, F(<<I("v")>>)>>,                           \* ... (:M.inc 2) (f v)
    <<DefM, F(<<CallInc>>), I("v")>>,                           \* ... (f (:M.inc 2)) v
    <<DefM, CallTwice>>,                                        \* ... (:M.twice 1)
    <<DefM, Indirect, Ref(M, "nope")>>,                         \* ... ((:M.get ()) 1 2) :M.nope
    <<Int64(5), DefN, Int64(5)>>,
    <<DefE, Ref(Atom("E"), "z")>>,                              \* ... :E.z
    <<DefK, Call(<<Ref(Atom("K"), "k")>>)>>,                    \* ... (:K.k)
    <<LetX, I("x")>>,                                           \* (let x (add 2 3)) x
    <<Call(<<>>), Call(<<Call(<<>>), Int64(1)>>), Ref(Atom("Nope"), "x")>>, \* () (() 1) :Nope.x
    <<Ref(Int64(1), "x")>>,                                     \* 1.x
    <<Ref(I("y"), "x")>>,                                       \* y.x
    <<Ref(Call(<<I("defmodule"), Atom("B")>>), "x")>>           \* (defmodule :B).x
}

\* the idents and the values a host of the Env API binds
LetIdents == {"x", "add", "to_upper", moduleIdent}
LetVals == {Int64(1), Int64(2)}

\* the evaluators that share a registry, the names they declare and refer to
Evaluators == 1..MaxEvaluators
ConcNames == {"M", "String"}
ConcDecls == <<"a", "b">>
\* the *Module of std, and the one evaluator i allocates in AddModule
StdModule == 0
Idle == [pc |-> "idle"]

\* the registry maps a name to a *Module; a *Module is known by the
\* evaluator that allocated it
ConcInit ==
    [reg |-> [n \in DOMAIN std |-> StdModule],
     decls |-> [o \in {StdModule} \cup Evaluators |->
                   IF o = StdModule THEN std["String"] ELSE NoDecls],
     ev |-> [i \in Evaluators |-> Idle]]

---------------------------------------------------------------------------
(* list.go: the List nodes of a heap ns, by address; 0 is the nil *List *)

\* the zero-value List: a list of length 0 that is not nil
ZeroList == [head |-> Nil, tail |-> 0, len |-> 0]

\* List.Len: the cached length; 0 for nil
ListLen(ns, list) == IF list = 0 THEN 0 ELSE ns[list].len

\* Push that caches the length of the list it was given
ListPushSameLen(ns, list, val) ==
    [nodes |-> Append(ns, [head |-> val, tail |-> list, len |-> ListLen(ns, list)]),
     list |-> Len(ns) + 1]

\* List.Push: a new node in front of list
ListPush(ns, list, val) ==
    [nodes |-> Append(ns, [head |-> val, tail |-> list, len |-> ListLen(ns, list) + 1]),
     list |-> Len(ns) + 1]

\* List.Tail: the tail node, or a new node when the tail's cached length is
\* not one less
ListTail(ns, list) ==
    IF list = 0 \/ ns[list].tail = 0 THEN [nodes |-> ns, list |-> 0]
    ELSE IF ns[ns[list].tail].len = ns[list].len - 1 THEN [nodes |-> ns, list |-> ns[list].tail]
    ELSE [nodes |-> Append(ns, [head |-> ListAt(ns[list].tail), tail |-> ns[ns[list].tail].tail,
                                len |-> ns[list].len - 1]),
          list |-> Len(ns) + 1]

\* List.All: the heads from cur on, while Len is positive
RECURSIVE ListAll(_, _)
ListAll(ns, cur) ==
    IF ListLen(ns, cur) > 0
    THEN LET t == ListTail(ns, cur) IN <<ns[cur].head>> \o ListAll(t.nodes, t.list)
    ELSE <<>>

\* ListOf: the values are pushed from the last to the first
RECURSIVE ListOfFrom(_, _, _, _)
ListOfFrom(ns, v, i, list) ==
    IF i = 0 THEN [nodes |-> ns, list |-> list]
    ELSE LET r == ListPush(ns, list, v[i]) IN ListOfFrom(r.nodes, v, i - 1, r.list)
ListOf(ns, v) == ListOfFrom(ns, v, Len(v), 0)

\* CollectList: the sequence is appended to a slice and given to ListOf; the
\* slice got from listPool is never a *[]any (Put stores a **[]any), so a new
\* one is made; Get takes an item of the pool and Put adds one
CollectList(ns, pool, v) ==
    LET got == IF pool > 0 THEN pool - 1 ELSE 0
        slice == <<>> \o v
        r == ListOf(ns, slice)
    IN  [nodes |-> r.nodes, list |-> r.list, pool |-> got + 1]

---------------------------------------------------------------------------
(* scanner/scanner.go.  A rune is a string of one character, a string the  *)
(* sequence of its runes; the input is the sequence a strings.Reader holds. *)

\* the printable ASCII runes from ' ' (32) to '~' (126), in order (the grave
\* accent, 96, by its name)
Ascii ==
    <<" ", "!", "\"", "#", "$", "%", "&", "'", "(", ")", "*", "+", ",", "-", ".", "/",
      "0", "1", "2", "3", "4", "5", "6", "7", "8", "9", ":", ";", "<", "=", ">", "?",
      "@", "A", "B", "C", "D", "E", "F", "G", "H", "I", "J", "K", "L", "M", "N", "O",
      "P", "Q", "R", "S", "T", "U", "V", "W", "X", "Y", "Z", "[", "\\", "]", "^", "_",
      "grave", "a", "b", "c", "d", "e", "f", "g", "h", "i", "j", "k", "l", "m", "n", "o",
      "p", "q", "r", "s", "t", "u", "v", "w", "x", "y", "z", "{", "|", "}", "~">>
\* the rune ReadRune returns with an error
NUL == ""
\* the code point of a rune
Code(c) ==
    IF c = NUL THEN 0 ELSE IF c = "\t" THEN 9 ELSE IF c = "\n" THEN 10
    ELSE 31 + (CHOOSE i \in 1..Len(Ascii) : Ascii[i] = c)
Between(c, lo, hi) == Code(lo) <= Code(c) /\ Code(c) <= Code(hi)
IsDigit(c) == Between(c, "0", "9")
IsLower(c) == Between(c, "a", "z")
IsUpper(c) == Between(c, "A", "Z")
\* unicode.IsSpace on the runes of the inputs
IsSpace(c) == c \in {" ", "\t", "\n"}

\* the token value types
Lparen == [t |-> "Lparen"]
Rparen == [t |-> "Rparen"]
Dot == [t |-> "Dot"]
Pin == [t |-> "Pin"]
TokInt(n) == [t |-> "Int", n |-> n]
\* a Float is num / 10^exp, with no trailing zero in num when exp > 0
TokFloat(m, x) == [t |-> "Float", num |-> m, exp |-> x]
TokString(s) == [t |-> "String", s |-> s]
TokIdent(s) == [t |-> "Ident", s |-> s]
TokAtom(s) == [t |-> "Atom", s |-> s]
Token(line, col, val) == [Line |-> line, Col |-> col, Val |-> val]

\* io.EOF and the errors of the scanner
EOF == [t |-> "err", kind |-> "EOF"]
UnexpectedRuneError(line, col, r) ==
    [t |-> "err", kind |-> "UnexpectedRuneError", Line |-> line, Col |-> col, Rune |-> r]
TokenError(line, col, err) ==
    [t |-> "err", kind |-> "TokenError", Line |-> line, Col |-> col, Err |-> err]
ErrUnexpectedEOF(literal) == [msg |-> "unexpected EOF in literal", of |-> literal]
Errorf(msg, val) == [msg |-> msg, of |-> val]

\* strconv.ParseInt(str, 10, 64) of a string of digits (the literals of the
\* inputs are within int64)
RECURSIVE ParseDigits(_, _, _)
ParseDigits(str, i, acc) ==
    IF i > Len(str) THEN acc ELSE ParseDigits(str, i + 1, 10 * acc + (Code(str[i]) - Code("0")))
ParseInt(str) == ParseDigits(str, 1, 0)

\* strconv.ParseFloat(str, 64) of digits '.' digits: the decimal, normalised
RECURSIVE Normalise(_, _)
Normalise(m, x) == IF x > 0 /\ m % 10 = 0 THEN Normalise(m \div 10, x - 1) ELSE TokFloat(m, x)
ParseFloat(str) ==
    LET dot == CHOOSE i \in 1..Len(str) : str[i] = "."
        digits == SubSeq(str, 1, dot - 1) \o SubSeq(str, dot + 1, Len(str))
    IN  Normalise(ParseDigits(digits, 1, 0), Len(str) - dot)

\* New: the Scanner before the first token.  pos is the number of runes the
\* reader has given out, canUnread whether its last call was a ReadRune that
\* succeeded; st is "run", or "raise" while a raise{} unwinds to start's
\* recover, or "panic" for any other panic; ok is what read returned last
NewScanner ==
    [pos |-> 0, canUnread |-> FALSE, line |-> 1, col |-> 1, c |-> NUL, err |-> Nil,
     buf |-> <<>>, tok |-> Token(0, 0, Nil), st |-> "run", raised |-> Nil, ok |-> TRUE]

raise(s, err) == [s EXCEPT !.st = "raise", !.raised = err]
raiseToken(s, err) == raise(s, TokenError(s.tok.Line, s.tok.Col, err))
raiseUnexpectedRune(s) == raise(s, UnexpectedRuneError(s.line, s.col - 1, s.c))
raiseUnexpectedEOF(s, literal) ==
    IF s.err = EOF THEN raiseToken(s, ErrUnexpectedEOF(literal)) ELSE s

\* Scanner.read: s.err is assigned whatever ReadRune returns, nil included
read(inp, s) ==
    IF s.pos >= Len(inp)
    THEN [s EXCEPT !.c = NUL, !.err = EOF, !.canUnread = FALSE, !.ok = FALSE]
    ELSE LET c == inp[s.pos + 1] IN
         [s EXCEPT !.c = c, !.err = Nil, !.pos = @ + 1, !.canUnread = TRUE, !.ok = TRUE,
                   !.line = IF c = "\n" THEN @ + 1 ELSE @,
                   !.col = IF c = "\n" THEN 1 ELSE @ + 1]

\* Scanner.unread: UnreadRune fails unless the last call was a ReadRune, and
\* then unread panics; line and col stay as read left them
unread(s) ==
    IF ~s.canUnread THEN [s EXCEPT !.st = "panic"]
    ELSE [s EXCEPT !.pos = @ - 1, !.canUnread = FALSE]

WriteRune(s, c) == [s EXCEPT !.buf = Append(@, c)]
SetVal(s, val) == [s EXCEPT !.tok.Val = val]

\* Scanner.escape
escape(s, q) ==
    IF s.c = q \/ s.c = "\\" THEN s
    ELSE IF s.c = "n" THEN [s EXCEPT !.c = "\n"]
    ELSE IF s.c = "t" THEN [s EXCEPT !.c = "\t"]
    ELSE raiseToken(s, Errorf("invalid escape sequence", s.c))

RECURSIVE scanIdent(_, _)
RECURSIVE scanInt(_, _)
RECURSIVE scanFloat(_, _)
RECURSIVE scanString(_, _)
RECURSIVE skipSpace(_, _)

\* Scanner.ident: at the end of the input it returns without a token value
scanIdent(inp, s) ==
    LET r == read(inp, s) IN
    IF ~r.ok THEN r
    ELSE IF r.c = "_" THEN scanIdent(inp, WriteRune(r, r.c))
    ELSE IF r.c \in {"?", "!"}
    THEN SetVal(WriteRune(r, r.c), TokIdent(Append(r.buf, r.c)))
    ELSE IF IsLower(r.c) \/ IsUpper(r.c) \/ IsDigit(r.c) THEN scanIdent(inp, WriteRune(r, r.c))
    ELSE LET u == unread(r) IN
         IF u.st # "run" THEN u ELSE SetVal(u, TokIdent(u.buf))

\* ident for an uppercase-led name: the token value stays an Ident
scanAtomIsIdent(inp, s) == scanIdent(inp, s)

\* Scanner.atom: the type assertion panics when the token value is no Ident
scanAtom(inp, s) ==
    LET r == scanIdent(inp, s) IN
    IF r.st # "run" THEN r
    ELSE IF r.tok.Val.t = "Ident" THEN SetVal(r, TokAtom(r.tok.Val.s))
    ELSE [r EXCEPT !.st = "panic"]

\* Scanner.float: at the end of the input it returns without a token value
scanFloat(inp, s) ==
    LET r == read(inp, s) IN
    IF ~r.ok THEN r
    ELSE IF IsDigit(r.c) THEN scanFloat(inp, WriteRune(r, r.c))
    ELSE LET u == unread(r) IN
         IF u.st # "run" THEN u ELSE SetVal(u, ParseFloat(u.buf))

\* Scanner.int
scanInt(inp, s) ==
    LET r == read(inp, s) IN
    IF ~r.ok THEN SetVal(r, TokInt(ParseInt(r.buf)))
    ELSE IF r.c = "." THEN scanFloat(inp, WriteRune(r, "."))
    ELSE IF IsDigit(r.c) THEN scanInt(inp, WriteRune(r, r.c))
    ELSE LET u == unread(r) IN
         IF u.st # "run" THEN u ELSE SetVal(u, TokInt(ParseInt(u.buf)))

\* Scanner.string
scanString(inp, s) ==
    LET r == read(inp, s) IN
    IF ~r.ok THEN raiseUnexpectedEOF(r, "string")
    ELSE IF r.c = "\\"
    THEN LET r2 == read(inp, r)
             e == escape(r2, "\"")
         IN  IF ~r2.ok THEN raiseUnexpectedEOF(r2, "string")
             ELSE IF e.st # "run" THEN e
             ELSE scanString(inp, WriteRune(e, e.c))
    ELSE IF r.c = "\"" THEN SetVal(r, TokString(r.buf))
    ELSE scanString(inp, WriteRune(r, r.c))

\* Scanner.atomcolon
scanAtomcolon(inp, s) ==
    LET r == read(inp, s) IN
    IF ~r.ok THEN raiseUnexpectedEOF(r, "atom")
    ELSE IF r.c = "\""
    THEN LET q == scanString(inp, r) IN
         IF q.st # "run" THEN q
         ELSE IF q.tok.Val.t = "String" THEN SetVal(q, TokAtom(q.tok.Val.s))
         ELSE [q EXCEPT !.st = "panic"]
    ELSE LET u == unread(r) IN
         IF u.st # "run" THEN u ELSE scanAtom(inp, u)

\* Scanner.rune
scanRune(inp, s) ==
    LET r == read(inp, s)
        r2 == read(inp, r)
        e == escape(r2, "'")
        \* the Scanner once val is known
        v == IF r.c = "\\" THEN e ELSE r
        close == read(inp, v)
    IN  IF ~r.ok THEN raiseUnexpectedEOF(r, "rune")
        ELSE IF r.c = "\\" /\ ~r2.ok THEN raiseUnexpectedEOF(r2, "rune")
        ELSE IF r.c = "\\" /\ e.st # "run" THEN e
        ELSE IF r.c = "'" THEN raiseToken(r, Errorf("empty rune literal", Nil))
        ELSE IF ~close.ok THEN raiseUnexpectedEOF(close, "rune")
        ELSE IF close.c # "'"
        THEN raiseToken(close, Errorf("rune literal contains more than one rune", Nil))
        ELSE SetVal(close, TokInt(Code(v.c)))

\* the loop at the head of start: runes are read up to one that is no space
skipSpace(inp, s) ==
    LET r == read(inp, s) IN
    IF ~r.ok THEN r
    ELSE IF IsSpace(r.c) THEN skipSpace(inp, r)
    ELSE r

\* the body of Scanner.start, up to its deferred calls
startBody(inp, s) ==
    LET r == skipSpace(inp, [s EXCEPT !.tok.Line = s.line, !.tok.Col = s.col]) IN
    IF ~r.ok THEN r
    ELSE CASE r.c = "(" -> SetVal(r, Lparen)
           [] r.c = ")" -> SetVal(r, Rparen)
           [] r.c = "." -> SetVal(r, Dot)
           [] r.c = "\\" -> SetVal(r, Pin)
           [] r.c = "\"" -> scanString(inp, r)
           [] r.c = ":" -> scanAtomcolon(inp, r)
           [] r.c = "'" -> scanRune(inp, r)
           [] r.c = "_" -> scanIdent(inp, WriteRune(r, "_"))
           [] IsDigit(r.c) -> scanInt(inp, WriteRune(r, r.c))
           [] IsLower(r.c) -> scanIdent(inp, WriteRune(r, r.c))
           [] IsUpper(r.c) -> scanAtom(inp, WriteRune(r, r.c))
           [] OTHER -> raiseUnexpectedRune(r)

\* Scanner.start: the buffer is reset, and a raise{} is recovered into s.err;
\* any other panic goes on
start(inp, s) ==
    LET r == startBody(inp, [s EXCEPT !.st = "run", !.raised = Nil]) IN
    IF r.st = "raise" THEN [r EXCEPT !.buf = <<>>, !.err = r.raised, !.st = "run"]
    ELSE [r EXCEPT !.buf = <<>>]

\* Scanner.Err: nil for io.EOF
Err(s) == IF s.err = EOF THEN Nil ELSE s.err

---------------------------------------------------------------------------
(* parser/parser.go: the parser, over the scanner of scanner/scanner.go *)

\* the errors of the parser
IoErrUnexpectedEOF == [t |-> "err", kind |-> "io.ErrUnexpectedEOF"]
UnexpectedTokenError(line, col, got, expected) ==
    [t |-> "err", kind |-> "UnexpectedTokenError", Line |-> line, Col |-> col,
     Got |-> got, Expected |-> expected]
ErrRefName == [t |-> "err", kind |-> "errors.New",
               msg |-> "last element of a ref must be an identifier"]

\* literal.Float: the float64 of a Float token
LitFloat(t) == [t |-> "float", num |-> t.num, exp |-> t.exp]

\* parser{s: s}: s is the Scanner, tok the token given back by unscan or
\* held by peek; st is "run", or "raise" while a raise{} unwinds to Parse's
\* recover, or "panic" for any other panic.  rejected is the errors Err()
\* of the scanner had when a call of Scan returned false
NewParser(s) == [s |-> s, tok |-> Token(0, 0, Nil), st |-> "run", raised |-> Nil,
                 rejected |-> <<>>]

parseRaise(p, err) == [p EXCEPT !.st = "raise", !.raised = err]
parseRaiseUnexpectedEOF(p) == parseRaise(p, IoErrUnexpectedEOF)
raiseUnexpectedToken(p, got, ex) ==
    parseRaise(p, UnexpectedTokenError(got.Line, got.Col, got.Val, ex))

\* the zero Token, and what an operation gives that ended in a raise or panic
NoToken == Token(0, 0, Nil)
Gave(p, val) == [p |-> p, val |-> val]
Stop(p) == [p |-> p, val |-> Nil]

\* p.s.Scan() inside the parser: r is the scanner after start; a panic of
\* the scanner goes through the parser
scanned(p, r) ==
    IF r.st = "panic" THEN [p EXCEPT !.st = "panic"]
    ELSE [p EXCEPT !.s = r,
                   !.rejected = IF Err(r) # Nil THEN Append(@, Err(r)) ELSE @]
parseAdvance(inp, p) == scanned(p, start(inp, p.s))

\* parser.scan: the held token if there is one, else the next token, and a
\* raise of io.ErrUnexpectedEOF when Scan returns false
scanNext(q) ==
    IF q.st = "panic" THEN [p |-> q, tok |-> NoToken]
    ELSE IF q.s.err # Nil THEN [p |-> parseRaiseUnexpectedEOF(q), tok |-> NoToken]
    ELSE [p |-> q, tok |-> q.s.tok]
parseScan(inp, p) ==
    IF p.tok.Val # Nil THEN [p |-> [p EXCEPT !.tok.Val = Nil], tok |-> p.tok]
    ELSE scanNext(parseAdvance(inp, p))

\* parser.unscan
unscan(p, tok) ==
    IF p.tok.Val # Nil THEN [p EXCEPT !.st = "panic"] ELSE [p EXCEPT !.tok = tok]

\* parser.peek: the value of the held token, else that of the next token,
\* which is then held; nil when Scan returns false
peekNext(q) ==
    IF q.st = "panic" \/ q.s.err # Nil THEN Stop(q)
    ELSE Gave([q EXCEPT !.tok = q.s.tok], q.s.tok.Val)
peek(inp, p) ==
    IF p.tok.Val # Nil THEN Gave(p, p.tok.Val) ELSE peekNext(parseAdvance(inp, p))

\* expect[T]: scan, and an UnexpectedTokenError unless the token is a T
expected(a, T) ==
    IF a.p.st # "run" THEN a.p
    ELSE IF a.tok.Val.t = T THEN a.p
    ELSE raiseUnexpectedToken(a.p, a.tok, Nil)
expect(inp, p, T) == expected(parseScan(inp, p), T)

RECURSIVE listInnerLoop(_, _, _), listInnerSecond(_, _, _), listInnerExpr(_, _, _),
          listInnerNext(_, _, _), parseList(_, _), listBody(_, _), listClose(_, _),
          parseExpr(_, _), exprOf(_, _), exprUnexpected(_), exprDot(_, _), exprRef(_, _, _),
          parseRef(_, _, _), refName(_, _, _), refOf(_, _)

\* parser.listInner: expressions until peek gives Rparen or nil, and peek is
\* called for each half of the condition; extract.ListOf(exprs...) is the
\* list of them, in order
listInnerLoop(inp, p, exprs) == listInnerSecond(inp, peek(inp, p), exprs)
listInnerSecond(inp, a, exprs) ==
    IF a.p.st # "run" THEN Stop(a.p)
    ELSE IF a.val = Rparen THEN Gave(a.p, exprs)
    ELSE listInnerExpr(inp, peek(inp, a.p), exprs)
listInnerExpr(inp, b, exprs) ==
    IF b.p.st # "run" THEN Stop(b.p)
    ELSE IF b.val = Nil THEN Gave(b.p, exprs)
    ELSE listInnerNext(inp, parseExpr(inp, b.p), exprs)
listInnerNext(inp, e, exprs) ==
    IF e.p.st # "run" THEN Stop(e.p) ELSE listInnerLoop(inp, e.p, Append(exprs, e.val))

listInner(inp, p) == listInnerLoop(inp, p, <<>>)

\* parser.list: literal.List is extract.Call
parseList(inp, p) == listBody(inp, expect(inp, p, "Lparen"))
listBody(inp, a) ==
    IF a.st # "run" THEN Stop(a) ELSE listClose(inp, listInner(inp, a))
listClose(inp, l) ==
    IF l.p.st # "run" THEN Stop(l.p)
    ELSE Gave(expect(inp, l.p, "Rparen"), Call(l.val))

\* parser.expr: the default case scans one more token and raises an
\* UnexpectedTokenError for it
parseExpr(inp, p) == exprOf(inp, parseScan(inp, p))
exprOf(inp, a) ==
    IF a.p.st # "run" THEN Stop(a.p)
    ELSE exprDot(inp,
                 CASE a.tok.Val.t = "Int" -> Gave(a.p, Int64(a.tok.Val.n))
                   [] a.tok.Val.t = "Float" -> Gave(a.p, LitFloat(a.tok.Val))
                   [] a.tok.Val.t = "String" -> Gave(a.p, Str(a.tok.Val.s))
                   [] a.tok.Val.t = "Atom" -> Gave(a.p, Atom(a.tok.Val.s))
                   [] a.tok.Val.t = "Ident" -> Gave(a.p, Ident(a.tok.Val.s))
                   [] a.tok.Val.t = "Lparen" ->
                        IF a.p.tok.Val # Nil THEN Stop(unscan(a.p, a.tok))
                        ELSE parseList(inp, unscan(a.p, a.tok))
                   [] OTHER -> exprUnexpected(parseScan(inp, a.p)))
exprUnexpected(b) ==
    IF b.p.st # "run" THEN Stop(b.p) ELSE Stop(raiseUnexpectedToken(b.p, b.tok, Nil))
exprDot(inp, e) ==
    IF e.p.st # "run" THEN Stop(e.p) ELSE exprRef(inp, peek(inp, e.p), e.val)
exprRef(inp, k, val) ==
    IF k.p.st # "run" THEN Stop(k.p)
    ELSE IF k.val = Dot THEN parseRef(inp, k.p, val)
    ELSE Gave(k.p, val)

\* parser.ref: the name is whatever expr gives, and must be an Ident
parseRef(inp, p, in) == refName(inp, expect(inp, p, "Dot"), in)
refName(inp, a, in) ==
    IF a.st # "run" THEN Stop(a) ELSE refOf(parseExpr(inp, a), in)
refOf(name, in) ==
    IF name.p.st # "run" THEN Stop(name.p)
    ELSE IF name.val.t = "ident" THEN Gave(name.p, Ref(in, name.val))
    ELSE Stop(parseRaise(name.p, ErrRefName))

\* parser.Parse: listInner at top level; a raise{} becomes the error
\* returned, any other panic goes on
parsed(r) ==
    IF r.p.st = "panic" THEN [p |-> r.p, list |-> Nil, err |-> Nil]
    ELSE IF r.p.st = "raise" THEN [p |-> r.p, list |-> Nil, err |-> r.p.raised]
    ELSE [p |-> r.p, list |-> List(r.val), err |-> Nil]
ParserParse(inp, p) == parsed(listInner(inp, p))

\* ParseScanner
ParseScanner(inp, s) == ParserParse(inp, NewParser(s))

---------------------------------------------------------------------------
(* The state machine *)

Init ==
    /\ env = New.env
    /\ modules = New.modules
    /\ funcs = <<>>
    /\ script = <<>>
    /\ ret = Nil
    /\ pc = "host"
    /\ vals = <<>>
    /\ log = <<>>
    /\ last = [op |-> "New"]
    /\ nodes = kernelNodes
    /\ envs = <<[cur |-> NoModule, locals |-> Len(kernelNodes)]>>
    /\ conc = ConcInit
    /\ arith = [op |-> "none"]
    /\ pat = [pc |-> "start"]
    /\ lst = [nodes |-> <<ZeroList>>, pool |-> 0]
    /\ scn = [pc |-> "start"]
    /\ prs = [pc |-> "start"]

\* the host compiles a pattern, allocates a *Func with NewFunc and binds it
HostNewFunc(v) ==
    LET name == FuncNames[Len(funcs) + 1]
        c == CompilePattern(modules, env, List(v.format))
    IN  /\ pc = "host"
        /\ Len(funcs) < MaxFuncs
        /\ Len(funcs) < Len(FuncNames)
        /\ c.ok
        /\ funcs' = NewFunc(funcs, env, name, c.m, v.body)
        /\ env' = Let(env, name, FuncPtr(Len(funcs) + 1))
        /\ last' = [op |-> "NewFunc", env |-> env]
        /\ UNCHANGED <<modules, script, ret, pc, vals, log, nodes, envs>> /\ UNCHANGED auxVars

\* the host compiles a pattern and adds a variant to a *Func it holds
HostAddVariant(id, v) ==
    LET c == CompilePattern(modules, env, List(v.format)) IN
    /\ pc = "host"
    /\ Len(funcs[id].variants) < MaxVariants
    /\ c.ok
    /\ funcs' = AddVariant(funcs, id, c.m, v.body)
    /\ last' = [op |-> "AddVariant", env |-> env, id |-> id, before |-> funcs[id].variants,
                 pattern |-> c.m, body |-> v.body]
    /\ UNCHANGED <<env, modules, script, ret, pc, vals, log, nodes, envs>> /\ UNCHANGED auxVars

\* the host calls Run with its Env and a script
HostRun(p) ==
    /\ pc = "host"
    /\ pc' = "run"
    /\ script' = p
    /\ last' = [op |-> "Run", env |-> env]
    /\ UNCHANGED <<env, modules, funcs, ret, vals, log, nodes, envs>> /\ UNCHANGED auxVars

\* one iteration of Run's loop: the next expression is evaluated in the Env
\* the one before it returned; an error value makes Run return
RunStep ==
    LET expr == script[Len(vals) + 1]
        x == Eval(NewH(modules, funcs), env, expr, <<>>)
    IN  /\ pc = "run"
        /\ Len(vals) < Len(script)
        /\ ~x.h.over
        /\ last' = [op |-> "Eval", env |-> env, expr |-> expr, modules |-> modules, funcs |-> funcs]
        /\ log' = x.h.log
        /\ modules' = x.h.modules
        /\ funcs' = x.h.funcs
        /\ IF x.h.panic
           THEN pc' = "panic" /\ UNCHANGED <<env, ret, vals>>
           ELSE /\ env' = x.env
                /\ ret' = x.val
                /\ vals' = Append(vals, [env |-> env, out |-> x.env, val |-> x.val])
                /\ pc' = IF IsError(x.val) THEN "done" ELSE "run"
        /\ UNCHANGED <<script, nodes, envs>> /\ UNCHANGED auxVars

\* the script is exhausted: Run returns ret
RunReturn ==
    /\ pc = "run"
    /\ Len(vals) = Len(script)
    /\ pc' = "done"
    /\ last' = [op |-> "Return", env |-> env]
    /\ UNCHANGED <<env, modules, funcs, script, ret, vals, log, nodes, envs>> /\ UNCHANGED auxVars

Next ==
    \/ \E v \in Variants : HostNewFunc(v)
    \/ \E id \in 1..Len(funcs), v \in Variants : HostAddVariant(id, v)
    \/ \E p \in Programs : HostRun(p)
    \/ RunStep
    \/ RunReturn

Spec == Init /\ [][Next]_vars

---------------------------------------------------------------------------
(* The Env API on its own: a host derives Envs from the ones it holds *)

\* E.Let(k, v), E the i-th Env the host holds
EnvLet(i, k, v) ==
    LET r == HeapLet(nodes, envs[i], k, v) IN
    /\ Len(envs) < MaxEnvs
    /\ nodes' = r.nodes
    /\ envs' = Append(envs, r.env)
    /\ last' = [op |-> "Let", of |-> i, k |-> k, v |-> v, nodes |-> nodes]
    /\ UNCHANGED <<env, modules, funcs, script, ret, pc, vals, log>> /\ UNCHANGED auxVars

\* E.withCurrentModule(m), m a registered module
EnvWithCurrentModule(i, m) ==
    LET r == HeapWithCurrentModule(nodes, envs[i], m) IN
    /\ Len(envs) < MaxEnvs
    /\ nodes' = r.nodes
    /\ envs' = Append(envs, r.env)
    /\ last' = [op |-> "withCurrentModule", of |-> i, nodes |-> nodes]
    /\ UNCHANGED <<env, modules, funcs, script, ret, pc, vals, log>> /\ UNCHANGED auxVars

NextEnv ==
    \/ \E i \in 1..Len(envs), k \in LetIdents, v \in LetVals : EnvLet(i, k, v)
    \/ \E i \in 1..Len(envs), m \in DOMAIN modules : EnvWithCurrentModule(i, m)

SpecEnv == Init /\ [][NextEnv]_vars

---------------------------------------------------------------------------
(* Evaluators on several goroutines that share the registry of one Env.     *)
(* Each evaluates one expression, (defmodule name (def (a) ...) (def (b)    *)
(* ...)) or the Ref name.ident; a step is one access to the shared state.   *)

\* kernelDefModule up to AddModule: a taken name is a redeclaration error
ConcDefModule(i, name) ==
    LET r == LoadOrStore(conc.reg, name, i) IN
    /\ conc.ev[i].pc = "idle"
    /\ conc' = [conc EXCEPT
         !.reg = r.map,
         !.ev[i] = IF r.loaded
                   THEN [pc |-> "done", prog |-> "defmodule", name |-> name, got |-> FALSE,
                         val |-> ErrorString("attempted to redeclare module", Atom(name))]
                   ELSE [pc |-> "body", prog |-> "defmodule", name |-> name, got |-> TRUE,
                         m |-> i, n |-> 0]]
    /\ last' = [op |-> "AddModule", by |-> i, reg |-> conc.reg]
    /\ UNCHANGED exceptConc

\* one def of the module's body: kernelDef stores into the decls of the
\* current module
ConcDef(i) ==
    LET e == conc.ev[i]
        r == LoadOrStore(conc.decls[e.m], ConcDecls[e.n + 1], Int64(e.n + 1))
    IN  /\ e.pc = "body"
        /\ e.n < Len(ConcDecls)
        /\ conc' = [conc EXCEPT !.decls[e.m] = r.map, !.ev[i].n = e.n + 1]
        /\ last' = [op |-> "def", by |-> i, reg |-> conc.reg]
        /\ UNCHANGED exceptConc

\* the body has run: kernelDefModule returns the name
ConcDefReturn(i) ==
    LET e == conc.ev[i] IN
    /\ e.pc = "body"
    /\ e.n = Len(ConcDecls)
    /\ conc' = [conc EXCEPT !.ev[i] = [pc |-> "done", prog |-> "defmodule", name |-> e.name,
                                       got |-> TRUE, m |-> e.m, val |-> Atom(e.name)]]
    /\ last' = [op |-> "defmodule returns", by |-> i, reg |-> conc.reg]
    /\ UNCHANGED exceptConc

\* Ref.Eval up to GetModule
ConcRef(i, name) ==
    /\ conc.ev[i].pc = "idle"
    /\ conc' = [conc EXCEPT !.ev[i] =
                  IF name \in DOMAIN conc.reg
                  THEN [pc |-> "lookup", prog |-> "ref", name |-> name, m |-> conc.reg[name]]
                  ELSE [pc |-> "done", prog |-> "ref", name |-> name,
                        val |-> UndefinedModuleError(name)]]
    /\ last' = [op |-> "GetModule", by |-> i, reg |-> conc.reg]
    /\ UNCHANGED exceptConc

\* Ref.Eval from Module.Lookup on: a read of the module's decls
ConcLookup(i, ident) ==
    LET e == conc.ev[i]
        r == ModuleLookup(conc.decls[e.m], ident)
    IN  /\ e.pc = "lookup"
        /\ conc' = [conc EXCEPT !.ev[i] =
                      [pc |-> "done", prog |-> "ref", name |-> e.name, m |-> e.m,
                       val |-> IF r.ok THEN r.val ELSE NameError(ident)]]
        /\ last' = [op |-> "Lookup", by |-> i, reg |-> conc.reg]
        /\ UNCHANGED exceptConc

NextConc ==
    \/ \E i \in Evaluators, name \in ConcNames : ConcDefModule(i, name)
    \/ \E i \in Evaluators : ConcDef(i)
    \/ \E i \in Evaluators : ConcDefReturn(i)
    \/ \E i \in Evaluators, name \in ConcNames : ConcRef(i, name)
    \/ \E i \in Evaluators, ident \in {ConcDecls[k] : k \in 1..Len(ConcDecls)} : ConcLookup(i, ident)

SpecConc == Init /\ [][NextConc]_vars

---------------------------------------------------------------------------
(* add and sub on their own: the kernel forms applied to literal operands *)

\* the operands: 0, 1, -2, 0.0, 1.5, -1.5
Nums == {Int64(0), Int64(1), Int64(0 - 2), Float64(0), Float64(3), Float64(0 - 3)}
Operands == UNION {[1..n -> Nums] : n \in 2..MaxOperands}

\* (add a b ...) evaluated in the Env of New
NumAdd(args) ==
    /\ arith.op = "none"
    /\ arith' = [op |-> "add", args |-> args,
                 val |-> Eval(NewH(New.modules, <<>>), New.env, Call(<<I("add")>> \o args), <<>>).val]
    /\ last' = [op |-> "add"]
    /\ UNCHANGED exceptArith

\* (sub a b) evaluated in the Env of New
NumSub(a, b) ==
    /\ arith.op = "none"
    /\ arith' = [op |-> "sub", args |-> <<a, b>>,
                 val |-> Eval(NewH(New.modules, <<>>), New.env, Call(<<I("sub"), a, b>>), <<>>).val]
    /\ last' = [op |-> "sub"]
    /\ UNCHANGED exceptArith

NextNum ==
    \/ \E args \in Operands : NumAdd(args)
    \/ \E a, b \in Nums : NumSub(a, b)

SpecNum == Init /\ [][NextNum]_vars

---------------------------------------------------------------------------
(* A Pinned ident in a pattern: the host compiles \p in an Env, may bind p *)
(* again, and matches a value against the compiled pattern.               *)

\* the values p is bound to and the values matched: numbers, an Atom, a
\* kernel EvalFunc, two *List, nil
PinVals == {Int64(1), Int64(2), Atom("a"), EvalFunc("add"), ListAt(1), ListAt(2), Nil}
Unbound == [t |-> "unbound"]

\* CompilePattern(E, \p), E the base Env, with p bound to v or unbound
PatCompile(v) ==
    LET E == IF v = Unbound THEN New.env ELSE Let(New.env, "p", v) IN
    /\ pat.pc = "start"
    /\ pat' = [pc |-> "compiled", bound |-> v, env |-> E,
               c |-> CompilePattern(New.modules, E, Pinned("p"))]
    /\ last' = [op |-> "CompilePattern"]
    /\ UNCHANGED exceptPat

\* the host binds p again in the Env it holds
PatLet(v) ==
    /\ pat.pc = "compiled"
    /\ pat.c.ok
    /\ pat' = [pat EXCEPT !.pc = "rebound", !.env = Let(pat.env, "p", v)]
    /\ last' = [op |-> "Let"]
    /\ UNCHANGED exceptPat

\* Pattern.Match(E, v), E the Env the host holds
PatMatch(v) ==
    /\ pat.pc \in {"compiled", "rebound"}
    /\ pat.c.ok
    /\ pat' = [pc |-> "matched", bound |-> pat.bound, env |-> pat.env, c |-> pat.c,
               rebound |-> (pat.pc = "rebound"), val |-> v, r |-> Match(pat.c.m, pat.env, v)]
    /\ last' = [op |-> "Match"]
    /\ UNCHANGED exceptPat

NextPat ==
    \/ \E v \in PinVals \cup {Unbound} : PatCompile(v)
    \/ \E v \in PinVals : PatLet(v)
    \/ \E v \in PinVals : PatMatch(v)

SpecPat == Init /\ [][NextPat]_vars

---------------------------------------------------------------------------
(* The List API on its own: a host builds lists from the ones on the heap *)

Elems == {Int64(1), Int64(2)}
Lists == 0..Len(lst.nodes)
Vals == UNION {[1..n -> Elems] : n \in 0..MaxVals}

\* list.Push(val)
LstPush(list, val) ==
    LET r == ListPush(lst.nodes, list, val) IN
    /\ Len(lst.nodes) < MaxNodes
    /\ lst' = [lst EXCEPT !.nodes = r.nodes]
    /\ last' = [op |-> "Push", list |-> list, val |-> val, nodes |-> lst.nodes, out |-> r.list]
    /\ UNCHANGED exceptLst

\* list.Tail()
LstTail(list) ==
    LET r == ListTail(lst.nodes, list) IN
    /\ Len(r.nodes) <= MaxNodes
    /\ lst' = [lst EXCEPT !.nodes = r.nodes]
    /\ last' = [op |-> "Tail", list |-> list, nodes |-> lst.nodes, out |-> r.list]
    /\ UNCHANGED exceptLst

\* ListOf(vals...)
LstListOf(v) ==
    LET r == ListOf(lst.nodes, v) IN
    /\ Len(r.nodes) <= MaxNodes
    /\ lst' = [lst EXCEPT !.nodes = r.nodes]
    /\ last' = [op |-> "ListOf", vals |-> v, nodes |-> lst.nodes, out |-> r.list]
    /\ UNCHANGED exceptLst

\* CollectList(slices.Values(vals))
LstCollectList(v) ==
    LET r == CollectList(lst.nodes, lst.pool, v) IN
    /\ Len(r.nodes) <= MaxNodes
    /\ lst' = [nodes |-> r.nodes, pool |-> r.pool]
    /\ last' = [op |-> "CollectList", vals |-> v, nodes |-> lst.nodes, out |-> r.list]
    /\ UNCHANGED exceptLst

NextLst ==
    \/ \E list \in Lists, val \in Elems : LstPush(list, val)
    \/ \E list \in Lists : LstTail(list)
    \/ \E v \in Vals : LstListOf(v)
    \/ \E v \in Vals : LstCollectList(v)

SpecLst == Init /\ [][NextLst]_vars

---------------------------------------------------------------------------
(* The scanner on its own: a host makes a Scanner over an input and calls  *)
(* Scan; All is the calls of Scan up to the first that returns false.       *)

\* ("test" 30 'a' 1.2 :test2 Test3.push)
TestInput ==
    <<"(", "\"", "t", "e", "s", "t", "\"", " ", "3", "0", " ", "'", "a", "'", " ", "1", ".",
      "2", " ", ":", "t", "e", "s", "t", "2", " ", "T", "e", "s", "t", "3", ".", "p", "u", "s",
      "h", ")">>

\* the tokens TestScan expects of it
TestOutput ==
    <<Lparen, TokString(<<"t", "e", "s", "t">>), TokInt(30), TokInt(97), TokFloat(12, 1),
      TokAtom(<<"t", "e", "s", "t", "2">>), TokAtom(<<"T", "e", "s", "t", "3">>), Dot,
      TokIdent(<<"p", "u", "s", "h">>), Rparen>>

\* a comment line and a line of two tokens: "# c", "( )"
CommentInput == <<"#", " ", "c", "\n", "(", " ", ")">>

\* the index of the first rune after pos that is no space: where the token
\* of the next Scan begins
FirstRune(inp, pos) ==
    LET After == {i \in (pos + 1)..Len(inp) : ~IsSpace(inp[i])} IN
    IF After = {} THEN 0 ELSE CHOOSE i \in After : \A j \in After : i <= j

\* further inputs
FixedInputs ==
    {
      <<"(", "t", "e", "s", "t", " ", "^", "t", ")">>,
      <<"3", "0">>,
      <<"(", "T", "e", "s", "t">>,
      <<"1", ".", "5">>,
      <<":", "\"", "a", " ", "b", "\"", " ", "x">>,
      <<"'", "\\", "n", "'", " ", "'", "\\", "q", "'">>,
      <<"\"", "a", "\\", "t", "b", "\"", " ", "\"", "c">>,
      <<" ", "\n", " ", " ", "a", "b", "?", " ", "_", "c", "!", "d">>,
      <<"#", " ", "c", "\n", "1">>,
      CommentInput
    }

\* every input of up to MaxInput runes of ScanAlphabet
ScanAlphabet == {"(", ")", "a", "A", "1", ".", " ", "\n", ":", "'", "\"", "\\", "^"}
ShortInputs == UNION {[1..n -> ScanAlphabet] : n \in 0..MaxInput}
Inputs == {TestInput} \cup FixedInputs \cup ShortInputs

\* scanner.New(strings.NewReader(inp))
ScanNew(inp) ==
    /\ scn.pc = "start"
    /\ scn' = [pc |-> "ready", input |-> inp, s |-> NewScanner, out |-> <<>>, stops |-> 0,
               all |-> <<>>, allErr |-> Nil, first |-> <<>>]
    /\ last' = [op |-> "New"]
    /\ UNCHANGED exceptScn

\* s.Scan(): start runs; Scan returns s.err == nil.  out is the tokens of the
\* calls that returned true, first the index in the input of the rune each
\* of them began with, all those of them All yields, allErr what Err returns
\* when All ends
ScanScan ==
    LET r == start(scn.input, scn.s) IN
    /\ scn.pc \in {"ready", "stopped"}
    /\ scn.stops < MaxStops
    /\ last' = [op |-> "Scan", s |-> scn.s]
    /\ IF r.st = "panic"
       THEN scn' = [scn EXCEPT !.pc = "panic"]
       ELSE IF r.err = Nil
       THEN scn' = [scn EXCEPT !.pc = IF scn.stops = 0 THEN "ready" ELSE "stopped",
                               !.s = r,
                               !.out = Append(@, r.tok),
                               !.first = Append(@, FirstRune(scn.input, scn.s.pos)),
                               !.all = IF scn.stops = 0 THEN Append(@, r.tok) ELSE @]
       ELSE scn' = [scn EXCEPT !.pc = "stopped", !.s = r, !.stops = @ + 1,
                               !.allErr = IF scn.stops = 0 THEN Err(r) ELSE @]
    /\ UNCHANGED exceptScn

NextScn ==
    \/ \E inp \in Inputs : ScanNew(inp)
    \/ ScanScan

SpecScn == Init /\ [][NextScn]_vars

---------------------------------------------------------------------------
(* Parsing: Parse(r) is ParseScanner(scanner.New(r)) *)

\* the scripts "a.b.c", "M.name", "(M.name a)", "\x", "(def \x)", "a )" and
\* "(a ^" , each but the last followed by a newline
ChainInput == <<"a", ".", "b", ".", "c", "\n">>
RefInput == <<"M", ".", "n", "a", "m", "e", "\n">>
CallInput == <<"(", "M", ".", "n", "a", "m", "e", " ", "a", ")", "\n">>
PinInput == <<"\\", "x", "\n">>
DefPinInput == <<"(", "d", "e", "f", " ", "\\", "x", ")", "\n">>
StrayInput == <<"a", " ", ")", "\n">>
OpenInput == <<"(", "a", " ", "^">>

ParseAlphabet == {"(", ")", "a", "M", ".", "\\", " ", "^", "1"}
Sources == {ChainInput, RefInput, CallInput, PinInput, DefPinInput, StrayInput, OpenInput}
               \cup UNION {[1..n -> ParseAlphabet] : n \in 0..MaxSource}

\* scanner.New(r), the first half of Parse
PrsNew(inp) ==
    /\ prs.pc = "start"
    /\ prs' = [pc |-> "new", input |-> inp, s |-> NewScanner]
    /\ last' = [op |-> "scanner.New"]
    /\ UNCHANGED exceptPrs

\* ParseScanner(s), the second half: list and err are what it returns
Returned(inp, r) ==
    [pc |-> IF r.p.st = "panic" THEN "panic" ELSE "done", input |-> inp,
     s |-> r.p.s, list |-> r.list, err |-> r.err, rejected |-> r.p.rejected]
PrsParseScanner ==
    /\ prs.pc = "new"
    /\ prs' = Returned(prs.input, ParseScanner(prs.input, prs.s))
    /\ last' = [op |-> "ParseScanner"]
    /\ UNCHANGED exceptPrs

NextPrs ==
    \/ \E inp \in Sources : PrsNew(inp)
    \/ PrsParseScanner

SpecPrs == Init /\ [][NextPrs]_vars

---------------------------------------------------------------------------
(* The history read by the properties *)

Events(k) == {i \in 1..Len(log) : log[i].k = k}
EventOf(k, c) == log[CHOOSE i \in Events(k) : log[i].c = c]

\* the variants of a "try" event whose pattern matches its evaluated arguments
Matching(ev) ==
    {i \in 1..Len(ev.variants) : Match(ev.variants[i].Pattern, ev.fenv, ev.eargs).ok}
FirstMatch(ev) ==
    IF Matching(ev) = {} THEN 0 ELSE CHOOSE i \in Matching(ev) : \A j \in Matching(ev) : i <= j

\* the last action evaluated (f ...), f bound to a *Func in the Env of Run
TopFuncCall ==
    /\ last.op = "Eval"
    /\ pc # "panic"
    /\ last.expr.t = "call"
    /\ Len(last.expr.l) > 0
    /\ Head(last.expr.l).t = "ident"
    /\ Lookup(last.modules, last.env, Head(last.expr.l).s).val.t = "func"

---------------------------------------------------------------------------
(* Properties *)

\* C1: AddVariant appends, and a call of a *Func tries its variants in that
\* order: the variant taken is the first whose pattern matches the evaluated
\* arguments, every variant before it was tried and none after it, only its
\* body is run, and the call's value is the value of that body
C1_FirstMatchingVariantRuns ==
    /\ last.op = "AddVariant" =>
           funcs[last.id].variants =
               Append(last.before, [Pattern |-> last.pattern, Body |-> last.body])
    /\ \A i \in Events("try") :
           LET ev == log[i]
               first == FirstMatch(ev)
               bodies == {j \in Events("body") : log[j].c = ev.c}
               h0 == [NewH(ev.modules, ev.funcs) EXCEPT !.depth = ev.depth]
           IN  /\ ev.variants = funcs[ev.f].variants
               /\ ev.v = first
               /\ ev.tried = [j \in 1..(IF first = 0 THEN Len(ev.variants) ELSE first) |-> j]
               /\ first # 0 =>
                      /\ Cardinality(bodies) = 1
                      /\ \A j \in bodies : log[j].v = first
                      /\ EventOf("leave", ev.c).val = Run(h0, ev.benv, ev.variants[first].Body).val

\* (f 1) with the variants (f 1) -> :one and (f x) -> (f 1): both match, the first is taken
C1_Witness ==
    /\ TopFuncCall
    /\ ret = Atom("one")
    /\ \E i \in Events("try") :
           log[i].c = 1 /\ Cardinality(Matching(log[i])) > 1 /\ log[i].v = 1

C3_CallReturnsCallerEnv ==
    \A j \in Events("leave") : log[j].env = log[j].caller

\* C4: in every call of a user function the arguments are evaluated in order,
\* the first of them in the Env of the caller, all of them before a pattern is tried
C4_ArgsInCallerEnvBeforeMatch ==
    \A i \in Events("enter") :
        LET as == {j \in Events("arg") : log[j].c = log[i].c} IN
        /\ Cardinality(as) = Len(log[i].args)
        /\ \A j \in as :
               /\ j > i
               /\ (log[j].i = 1) => (log[j].env = log[i].caller)
               /\ \A k \in as : (log[j].i < log[k].i) => (j < k)
               /\ \A t \in Events("try") : (log[t].c = log[i].c) => (j < t)

\* C5: in the Env a body of a *Func f is run in, the name of f is bound to f,
\* whose variants are all the variants f has
C5_NameDenotesFunctionInBody ==
    \A i \in Events("body") :
        LET ev == EventOf("try", log[i].c) IN
        /\ Lookup(ev.modules, ev.benv, ev.name) = Found(FuncPtr(ev.f))
        /\ ev.variants = funcs[ev.f].variants

\* the idents a Lookup is asked for
LookupIdents == LetIdents \cup {"list", "sub", "to_lower", "y"}

\* the Env the last Let returned
LetResult == envs[Len(envs)]

\* every Lookup on an Env held before the last action gives what it gave before it
LookupsKept ==
    \A i \in 1..(Len(envs) - 1), k \in LookupIdents :
        HeapLookup(nodes, modules, envs[i], k) = HeapLookup(last.nodes, modules, envs[i], k)

\* C6, as the spec has it: after E.Let(k, v), whatever the Ident k, a Lookup of
\* k in the result gives (v, true), and every Lookup on E gives what it gave before
C6_LetBindsAnyIdent ==
    last.op = "Let" =>
        /\ HeapLookup(nodes, modules, LetResult, last.k) = Found(last.v)
        /\ LookupsKept

\* C6: after E.Let(k, v), k any Ident but the sentinel $module, a Lookup of k
\* in the result gives (v, true), also when E bound k; and whatever k is,
\* every Lookup on E gives what it gave before
C6_LetBindsIdentButSentinel ==
    last.op = "Let" =>
        /\ (last.k # moduleIdent) => (HeapLookup(nodes, modules, LetResult, last.k) = Found(last.v))
        /\ LookupsKept

\* k is bound in E to another value, through the chain or through the module of E
C6_Witness ==
    /\ last.op = "Let"
    /\ last.k # moduleIdent
    /\ HeapLookup(last.nodes, modules, envs[last.of], last.k).ok
    /\ HeapLookup(last.nodes, modules, envs[last.of], last.k).val # last.v
    /\ HeapLookup(nodes, modules, LetResult, last.k) = Found(last.v)
    /\ HeapLookup(nodes, modules, envs[last.of], last.k) # Found(last.v)

\* the bindings of an Env made after its module was entered: the nodes before
\* the sentinel
PostEntry(e) ==
    LET at == {i \in 1..Len(e.locals) : e.locals[i].ident = moduleIdent} IN
    IF at = {} THEN {}
    ELSE {e.locals[i].ident : i \in 1..((CHOOSE i \in at : \A j \in at : i <= j) - 1)}

\* C7: an Ident evaluated in an Env whose current module declares it resolves:
\* to that declaration, or to a binding made after the module was entered
C7_ModuleDeclarationsInScope ==
    \A i \in Events("ident") :
        LET ev == log[i] IN
        ev.decl.ok =>
            /\ ev.ok
            /\ ev.val = ev.decl.val \/ ev.ident \in PostEntry(ev.env)

\* the "run" events of one invocation of Run
RunEvents(run) == {i \in Events("run") : log[i].run = run}

\* C8: Run evaluates its expressions in order, each in the Env the one before
\* it returned; an error ends it, no expression after the error is evaluated
\* and the error is returned; without an error every expression is evaluated
\* and the value of the last one is returned, nil for an empty sequence
C8_RunStopsAtFirstError ==
    /\ \A i \in 1..Len(vals) :
           /\ IsError(vals[i].val) => (i = Len(vals) /\ pc = "done")
           /\ (i > 1) => (vals[i].env = vals[i - 1].out)
    /\ (pc \in {"run", "done"}) =>
           /\ ret = (IF vals = <<>> THEN Nil ELSE vals[Len(vals)].val)
           /\ (vals # <<>>) => (env = vals[Len(vals)].out)
    /\ (pc = "done" /\ ~IsError(ret)) => (Len(vals) = Len(script))
    /\ \A i \in Events("run") :
           (log[i].i > 1) =>
               \E j \in RunEvents(log[i].run) :
                   /\ j < i
                   /\ log[j].i = log[i].i - 1
                   /\ log[j].out = log[i].env
                   /\ ~IsError(log[j].val)
    /\ \A i \in Events("ran") :
           LET evs == RunEvents(log[i].run)
               end == CHOOSE j \in evs : \A k \in evs : k <= j
           IN  /\ \A j \in evs : j < i
               /\ (evs = {}) => (log[i].val = Nil /\ log[i].n = 0)
               /\ (evs # {}) =>
                      /\ log[i].val = log[end].val
                      /\ IsError(log[end].val) \/ log[end].i = log[i].n

\* (defmodule :E nope (def (z) 1)): the body stops at nope, z is not declared;
\* and the script stops at this error with an expression left
C8_Witness ==
    /\ pc = "done"
    /\ ret = NameError("nope")
    /\ Len(vals) < Len(script)
    /\ "E" \in DOMAIN modules
    /\ "z" \notin DOMAIN modules["E"]
    /\ \E i \in Events("ran") : log[i].n = 2 /\ Cardinality(RunEvents(log[i].run)) = 1

\* what the head of the Call the last action evaluated resolves to
Callee ==
    LET head == Head(last.expr.l) IN
    CASE head.t = "ident" -> Lookup(last.modules, last.env, head.s).val
      [] head.t = "ref" /\ head.in.t = "atom" /\ head.in.s \in DOMAIN last.modules ->
            ModuleLookup(last.modules[head.in.s], head.name).val
      [] OTHER -> Nil

\* C9: an empty Call evaluates to itself; a Call that is not empty evaluates
\* its head with its tail as the arguments, not evaluated: a user function at
\* the head is entered with the tail as it is written; and when the head is
\* itself a Call, what the head evaluates to is evaluated with the tail
C9_CallAppliesHeadToTail ==
    (last.op = "Eval" /\ pc # "panic" /\ last.expr.t = "call") =>
        LET c == last.expr
            h0 == NewH(last.modules, last.funcs)
            x == Eval(h0, last.env, Head(c.l), Tail(c.l))
            inner == Eval(h0, last.env, Head(c.l), <<>>)
            outer == Eval(inner.h, inner.env, inner.val, Tail(c.l))
        IN  IF Len(c.l) = 0
            THEN ret = c /\ env = last.env /\ modules = last.modules
            ELSE /\ ret = x.val /\ env = x.env /\ modules = x.h.modules
                 /\ (Callee.t \in {"func", "closure"} /\ Events("enter") # {}) =>
                        EventOf("enter", 1).args = Tail(c.l)
                 /\ (Head(c.l).t = "call" /\ Len(Tail(c.l)) > 0) =>
                        (ret = outer.val /\ env = outer.env /\ modules = outer.h.modules)

\* ((:M.get ()) 1 2): (:M.get ()) gives the function plus, which is called with 1 and 2
C9_Witness ==
    /\ last.op = "Eval"
    /\ last.expr = Indirect
    /\ ret = Int64(3)
    /\ \E i \in Events("enter") : log[i].args = <<Int64(1), Int64(2)>>

\* the case of Ref.Eval an event is in, by the value of In and the registry
\* evaluating In left
RefCase(ev) ==
    CASE ev.in.t = "atom" /\ ev.in.s \notin DOMAIN ev.modules -> "module"
      [] ev.in.t = "atom" /\ ev.in.s \in DOMAIN ev.modules ->
            IF ev.ref.name \in DOMAIN ev.modules[ev.in.s] THEN "found" ELSE "name"
      [] ev.in.t = "err" -> "error"
      [] OTHER -> "type"

RefError(ev) ==
    CASE RefCase(ev) = "module" -> [t |-> "err", kind |-> "UndefinedModuleError", of |-> ev.in]
      [] RefCase(ev) = "name" -> [t |-> "err", kind |-> "NameError", of |-> Ident(ev.ref.name)]
      [] RefCase(ev) = "error" -> ev.in
      [] RefCase(ev) = "type" -> [t |-> "err", kind |-> "TypeError", of |-> ev.in]

\* C10, as the spec has it: Ref.Eval returns the error of its case, evaluates
\* no referenced value, and leaves the registry as it was when Ref.Eval began
C10_RefErrorLeavesRegistry ==
    \A i \in Events("ref") :
        (RefCase(log[i]) # "found") =>
            /\ log[i].val = RefError(log[i])
            /\ ~log[i].deref
            /\ log[i].after = log[i].before

\* C10: Ref.Eval returns UndefinedModuleError for an Atom that names no module,
\* NameError for a name the module does not declare, TypeError for an In that
\* is no Atom and no error, and the error itself for an In that is one; in
\* these cases no referenced value is evaluated and the registry is left as
\* the evaluation of In left it
C10_RefErrorAfterIn ==
    \A i \in Events("ref") :
        (RefCase(log[i]) # "found") =>
            /\ log[i].val = RefError(log[i])
            /\ ~log[i].deref
            /\ log[i].after = log[i].modules

\* (defmodule :B).x: In declares the module B, which has no x
C10_Witness ==
    /\ ret = NameError("x")
    /\ \E i \in Events("ref") :
           /\ RefCase(log[i]) = "name"
           /\ log[i].before # log[i].modules
           /\ log[i].after = modules


---------------------------------------------------------------------------
(* Shared registry *)

\* the evaluators whose defmodule of a name has passed AddModule, and those
\* of them AddModule gave the new Module to
Declared(name) ==
    {i \in Evaluators : conc.ev[i].pc # "idle" /\ conc.ev[i].prog = "defmodule"
                        /\ conc.ev[i].name = name}
Registered(name) == {i \in Declared(name) : conc.ev[i].got}

\* C11: of the evaluators that ran defmodule for one name, exactly one
\* registered the module (none when std holds the name); every other one got
\* no Module and returns the redeclaration error; the registry keeps the
\* Module that was stored first.
C11_OneDefModuleWins ==
    \A name \in ConcNames :
        Declared(name) # {} =>
            /\ name \in DOMAIN conc.reg
            /\ IF name \in DOMAIN std
               THEN Registered(name) = {} /\ conc.reg[name] = StdModule
               ELSE Registered(name) = {conc.reg[name]}
            /\ \A i \in Declared(name) \ Registered(name) :
                   /\ conc.ev[i].pc = "done"
                   /\ conc.ev[i].val = ErrorString("attempted to redeclare module", Atom(name))

\* two evaluators ran defmodule M: one holds the Module, the other the error
C11_Witness ==
    \E i, j \in Evaluators :
        /\ i # j
        /\ {i, j} \subseteq Declared("M")
        /\ conc.ev[i].got /\ ~conc.ev[j].got
        /\ IsError(conc.ev[j].val)


---------------------------------------------------------------------------
(* def of a declared name *)

\* C12: a def whose name the current module already declares does not fail:
\* it returns no error and the module still declares the name, the earlier
\* declaration extended by the new variant.
C12_DefAppendsVariant ==
    \A i \in Events("def") :
        log[i].declared =>
            /\ ~IsError(log[i].val)
            /\ log[i].name \in DOMAIN log[i].after
            /\ log[i].after[log[i].name] # log[i].before[log[i].name]


---------------------------------------------------------------------------
(* Readers of a module under definition *)

\* C13: no evaluator holds, between GetModule and Module.Lookup, a module
\* whose defmodule on another evaluator is still running its body.
C13_ReadersAfterDefModule ==
    \A i, j \in Evaluators :
        ~(/\ conc.ev[i].pc = "lookup"
          /\ conc.ev[j].pc = "body"
          /\ conc.ev[i].m = conc.ev[j].m)


---------------------------------------------------------------------------
(* Arithmetic *)

IsFloat(v) == v.t = "float"
\* a number in halves: the unit of Float64
Halves(v) == IF v.t = "float" THEN v.halves ELSE 2 * v.n
RECURSIVE SumHalves(_, _)
SumHalves(args, i) == IF i > Len(args) THEN 0 ELSE Halves(args[i]) + SumHalves(args, i + 1)

\* C14: add of two or more numbers is a Float if an operand is a Float and an
\* Integer otherwise, and its value is the sum of the operands.
C14_AddFloatIfAnyFloat ==
    arith.op = "add" =>
        /\ IsFloat(arith.val) <=> \E i \in 1..Len(arith.args) : IsFloat(arith.args[i])
        /\ arith.val.t \in {"int", "float"}
        /\ Halves(arith.val) = SumHalves(arith.args, 1)

\* C15: sub of two numbers is a Float if either operand is a Float and an
\* Integer otherwise, and its value is the first operand minus the second.
C15_SubFloatIfEitherFloat ==
    arith.op = "sub" =>
        /\ IsFloat(arith.val) <=> (IsFloat(arith.args[1]) \/ IsFloat(arith.args[2]))
        /\ arith.val.t \in {"int", "float"}
        /\ Halves(arith.val) = Halves(arith.args[1]) - Halves(arith.args[2])


---------------------------------------------------------------------------
(* let *)

\* C16: (let x body...) evaluated by Run returns the value of the body and
\* an Env that binds x to it, and the next expression of the Run sees x.
C16_LetBindsForRun ==
    \A i \in 1..Len(vals) :
        script[i] = LetX =>
            /\ vals[i].val = Int64(5)
            /\ Lookup(modules, vals[i].out, "x") = Found(Int64(5))
            /\ (i < Len(vals) /\ script[i + 1] = I("x")) => vals[i + 1].val = Int64(5)


---------------------------------------------------------------------------
(* Pinned idents *)

\* C17: compiling \p with p unbound is the NameError of p; otherwise the
\* compiled matcher succeeds exactly on the values Equal to the value p had
\* when the pattern was compiled (it panics exactly when Equal does), whatever
\* p was bound to afterwards, and it returns the Env it was given.
C17_PinResolvedAtCompile ==
    /\ (pat.pc # "start" /\ pat.bound = Unbound) =>
           ~pat.c.ok /\ ~pat.c.panic /\ pat.c.err = NameError("p")
    /\ (pat.pc # "start" /\ pat.bound # Unbound) => pat.c.ok
    /\ pat.pc = "matched" =>
           /\ pat.r.ok = Equal(pat.bound, pat.val).eq
           /\ pat.r.panic = Equal(pat.bound, pat.val).panic
           /\ pat.r.env = pat.env

\* p was 1 when \p was compiled and 2 when it matched: 1 matches, 2 does not
C17_Witness ==
    /\ pat.pc = "matched"
    /\ pat.rebound
    /\ pat.bound = Int64(1)
    /\ Lookup(New.modules, pat.env, "p") = Found(Int64(2))
    /\ pat.val = Int64(1)
    /\ pat.r.ok


---------------------------------------------------------------------------
(* Lists *)

\* the elements of two lists are pairwise Equal
PairwiseEqual(a, b) ==
    /\ Len(a) = Len(b)
    /\ \A i \in 1..Len(a) : Equal(a[i], b[i]).eq

\* C18: Equal on two Lists that hold elements is true exactly when they have
\* the same length and pairwise Equal elements, whether or not they are one
\* node.
C18_EqualListsStructural ==
    \A a, b \in Lists :
        (ListLen(lst.nodes, a) > 0 /\ ListLen(lst.nodes, b) > 0) =>
            (Equal(ListAt(a), ListAt(b)).eq
                <=> PairwiseEqual(ListAll(lst.nodes, a), ListAll(lst.nodes, b)))

\* C19: the cached Len of every list is the number of elements All yields;
\* ListOf and CollectList yield their values in the order given; Push yields
\* the new element and then the elements of the list it was applied to; no
\* operation changes the length or the elements of a list that was there.
C19_LenIsCountOfAll ==
    /\ \A list \in Lists : ListLen(lst.nodes, list) = Len(ListAll(lst.nodes, list))
    /\ last.op \in {"ListOf", "CollectList"} => ListAll(lst.nodes, last.out) = last.vals
    /\ last.op = "Push" =>
           ListAll(lst.nodes, last.out) = <<last.val>> \o ListAll(last.nodes, last.list)
    /\ last.op \in {"Push", "Tail", "ListOf", "CollectList"} =>
           \A list \in 0..Len(last.nodes) :
               /\ ListLen(lst.nodes, list) = ListLen(last.nodes, list)
               /\ ListAll(lst.nodes, list) = ListAll(last.nodes, list)

\* a Push onto a list of two elements, made by CollectList or Push
C19_Witness ==
    /\ last.op = "Push"
    /\ ListLen(last.nodes, last.list) = 2
    /\ ListLen(lst.nodes, last.out) = 3
    /\ ListAll(lst.nodes, last.out) = <<last.val>> \o ListAll(lst.nodes, last.list)
    /\ lst.pool > 0


---------------------------------------------------------------------------
(* The scanner *)

\* the values of a sequence of tokens
TokVals(toks) == [i \in 1..Len(toks) |-> toks[i].Val]

\* C20: the tokens All yields of TestInput are, in order, the first tokens of
\* TestOutput: a String, the Int 30, the Int 97 of the rune 'a', the Float
\* 1.2, the Atom of :test2, the Atom of the uppercase-led Test3, Dot, the
\* Ident push and Rparen; when All ends they are all of TestOutput and Err
\* is nil.
C20_TestScanTokens ==
    (scn.pc # "start" /\ scn.input = TestInput) =>
        /\ scn.pc # "panic"
        /\ Len(scn.all) <= Len(TestOutput)
        /\ TokVals(scn.all) = SubSeq(TestOutput, 1, Len(scn.all))
        /\ scn.stops > 0 => (TokVals(scn.all) = TestOutput /\ scn.allErr = Nil)

\* All has ended on TestInput after ten tokens
C20_Witness ==
    /\ scn.pc = "stopped"
    /\ scn.input = TestInput
    /\ Len(scn.all) = 10
    /\ scn.all[7].Val = TokAtom(<<"T", "e", "s", "t", "3">>)


\* the runes of an input of parentheses, spaces, numbers and lowercase names
PlainRune(c) == c \in {"(", ")"} \/ IsSpace(c) \/ IsDigit(c) \/ IsLower(c)
Plain(inp) == \A i \in 1..Len(inp) : PlainRune(inp[i])

\* the number of tokens of a plain input from its i-th rune on; mode is the
\* token the rune before belongs to: "int", "ident" or "none"
RECURSIVE Lexemes(_, _, _)
Lexemes(inp, i, mode) ==
    IF i > Len(inp) THEN 0
    ELSE IF inp[i] \in {"(", ")"} THEN 1 + Lexemes(inp, i + 1, "none")
    ELSE IF IsSpace(inp[i]) THEN Lexemes(inp, i + 1, "none")
    ELSE IF IsDigit(inp[i])
    THEN IF mode = "none" THEN 1 + Lexemes(inp, i + 1, "int") ELSE Lexemes(inp, i + 1, mode)
    ELSE IF mode = "ident" THEN Lexemes(inp, i + 1, "ident")
    ELSE 1 + Lexemes(inp, i + 1, "ident")

\* C21: when All has ended on an input of parentheses, spaces, numbers and
\* lowercase names, it has yielded every token of the input, the one that
\* ends with the input included, and Err is nil.
C21_EveryTokenEmitted ==
    (scn.pc # "start" /\ Plain(scn.input) /\ scn.stops > 0) =>
        /\ Len(scn.all) = Lexemes(scn.input, 1, "none")
        /\ scn.allErr = Nil

\* the line and the column of the i-th rune of an input
LineOf(inp, i) == 1 + Cardinality({j \in 1..(i - 1) : inp[j] = "\n"})
ColOf(inp, i) ==
    LET N == {j \in 1..(i - 1) : inp[j] = "\n"} IN
    IF N = {} THEN i ELSE i - (CHOOSE j \in N : \A k \in N : k <= j)

\* C22: every token Scan gave carries the line and the column of the rune it
\* begins with.
C22_TokenPositionIsFirstRune ==
    scn.pc # "start" =>
        \A k \in 1..Len(scn.out) :
            /\ scn.out[k].Line = LineOf(scn.input, scn.first[k])
            /\ scn.out[k].Col = ColOf(scn.input, scn.first[k])

\* C23: an UnexpectedRuneError names the rune start read last, and the line
\* and the column of that rune in the input.
C23_UnexpectedRunePosition ==
    (scn.pc # "start" /\ scn.s.err # Nil /\ scn.s.err.kind = "UnexpectedRuneError") =>
        /\ scn.pc = "stopped"
        /\ scn.s.err.Rune = scn.input[scn.s.pos]
        /\ scn.s.err.Line = LineOf(scn.input, scn.s.pos)
        /\ scn.s.err.Col = ColOf(scn.input, scn.s.pos)

\* C24: a '#' is never an unexpected rune, and of CommentInput All yields the
\* two tokens of the second line and ends with a nil Err.
C24_CommentSkipped ==
    scn.pc # "start" =>
        /\ ~(scn.s.err # Nil /\ scn.s.err.kind = "UnexpectedRuneError" /\ scn.s.err.Rune = "#")
        /\ (scn.input = CommentInput /\ scn.stops > 0) =>
               (TokVals(scn.all) = <<Lparen, Rparen>> /\ scn.allErr = Nil)

\* C28: no call of Scan panics.
C28_ScanNeverPanics == scn.pc # "panic"

\* C29: once Scan has returned false with an UnexpectedRuneError or a
\* TokenError, it gives no further token and Err keeps returning that error.
C29_ErrorIsSticky ==
    (scn.pc # "start" /\ scn.stops > 0 /\ scn.allErr # Nil) =>
        /\ scn.out = scn.all
        /\ Err(scn.s) = scn.allErr

---------------------------------------------------------------------------
(* The parser *)

\* Parse has returned
Parsed == prs.pc = "done"

\* a script of names, parentheses and spaces in which some ')' closes no '('
Count(inp, n, c) == Cardinality({j \in 1..n : inp[j] = c})
NamesAndParens(inp) == \A i \in 1..Len(inp) : inp[i] \in {"(", ")", "a", " ", "\n"}
StrayRparen(inp) ==
    \E i \in 1..Len(inp) : inp[i] = ")" /\ Count(inp, i, ")") > Count(inp, i, "(")

\* C25: Parse of a script of names and parentheses with a ')' that closes no
\* '(' returns an UnexpectedTokenError, never a list with a nil error.
C25_StrayRparenIsError ==
    (Parsed /\ NamesAndParens(prs.input) /\ StrayRparen(prs.input)) =>
        (prs.err # Nil /\ prs.err.kind = "UnexpectedTokenError")

\* C26: a.b.c parses without error to Ref{In: Ref{In: a, Name: b}, Name: c},
\* and M.name to Ref{In: M, Name: name}.
C26_RefChainLeftAssociative ==
    /\ (Parsed /\ prs.input = ChainInput) =>
           /\ prs.err = Nil
           /\ prs.list = List(<<Ref(Ref(Ident(<<"a">>), Ident(<<"b">>)), Ident(<<"c">>))>>)
    /\ (Parsed /\ prs.input = RefInput) =>
           /\ prs.err = Nil
           /\ prs.list = List(<<Ref(Atom(<<"M">>), Ident(<<"n", "a", "m", "e">>))>>)

\* C27: a Pin token followed by an Ident token parses to Pinned{Ident}, at
\* top level and inside a list.
C27_PinParsesToPinned ==
    /\ (Parsed /\ prs.input = PinInput) =>
           (prs.err = Nil /\ prs.list = List(<<Pinned(<<"x">>)>>))
    /\ (Parsed /\ prs.input = DefPinInput) =>
           /\ prs.err = Nil
           /\ prs.list = List(<<Call(<<Ident(<<"d", "e", "f">>), Pinned(<<"x">>)>>)>>)

\* C30: when a Scan of the scanner returned false with an UnexpectedRuneError
\* or a TokenError, Parse returns a non-nil error.
C30_ScannerErrorFailsParse ==
    (Parsed /\ prs.rejected # <<>>) => prs.err # Nil

====
